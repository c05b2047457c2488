---------------------------- MODULE BattleProofs ----------------------------
(***************************************************************************)
(* Battle keeps its invariants for all players, mobs, abilities and bounds. *)
(*                                                                         *)
(* Handlers are operators from worlds to worlds, so what each of them does *)
(* is a lemma about worlds: a Gentle one hurts and heals nobody, a Quiet   *)
(* one hurts nobody who stays, and after one that Fought whoever was hurt  *)
(* was hurt in a duel that was on.  An action is then a handler, and the   *)
(* inductive invariant, Good, holds of the world it leads to.              *)
(*                                                                         *)
(* The hazards of Races are hypotheses of the theorems they would break,   *)
(* and of no others.                                                       *)
(***************************************************************************)
EXTENDS Battle, FiniteSetTheorems, TLAPS

Targets == Players \cup Mobs \cup {Nobody}
Castings == {NotCasting} \cup [ability : Abilities, target : Targets]
SessionSet ==
    [linked : {"none", "on", "off"}, place : {"field", "elsewhere"}, alive : BOOLEAN,
     health : 0..MaxHealth, target : Targets, auto : BOOLEAN, casting : Castings,
     aura : Players \cup {Nobody}]
MobSet ==
    [alive : BOOLEAN, targetable : BOOLEAN, health : 0..MobHealth,
     ai : {"idle", "roused", "evading", "returning", "dead"},
     target : Players \cup {Nobody}, threat : SUBSET Players, aura : Players \cup {Nobody}]
DuelSet == [challenger : Players, target : Players, state : {"pending", "countdown", "active"}]
BookSet ==
    [credit : [Players -> Nat], stored : [Players -> Nat], loot : [Players -> Nat],
     killed : [Players -> Nat], won : Nat, lost : Nat, bouts : Nat]
Worlds ==
    [session : [Players -> SessionSet], mob : [Mobs -> MobSet], duels : SUBSET DuelSet,
     book : BookSet]

LEMMA SessionFields ==
    ASSUME NEW s \in SessionSet
    PROVE  /\ s.linked \in {"none", "on", "off"} /\ s.place \in {"field", "elsewhere"}
           /\ s.alive \in BOOLEAN /\ s.health \in 0..MaxHealth /\ s.target \in Targets
           /\ s.auto \in BOOLEAN /\ s.casting \in Castings /\ s.aura \in Players \cup {Nobody}
BY DEF SessionSet

LEMMA SessionUpdates ==
    ASSUME NEW s \in SessionSet
    PROVE  /\ \A x \in {"none", "on", "off"} : [s EXCEPT !.linked = x] \in SessionSet
           /\ \A x \in {"field", "elsewhere"} : [s EXCEPT !.place = x] \in SessionSet
           /\ \A x \in 0..MaxHealth : [s EXCEPT !.health = x] \in SessionSet
           /\ \A x \in Targets : [s EXCEPT !.target = x] \in SessionSet
           /\ \A x \in Castings : [s EXCEPT !.casting = x] \in SessionSet
           /\ \A x \in Players \cup {Nobody} : [s EXCEPT !.aura = x] \in SessionSet
           /\ \A x \in BOOLEAN : [s EXCEPT !.auto = x] \in SessionSet
           /\ \A x \in BOOLEAN : [s EXCEPT !.alive = x] \in SessionSet
           /\ \A x \in 0..MaxHealth : [s EXCEPT !.health = x, !.alive = TRUE] \in SessionSet
           /\ [s EXCEPT !.target = Nobody, !.auto = FALSE, !.casting = NotCasting] \in SessionSet
BY DEF SessionSet, Castings, Targets

LEMMA WorldFields ==
    ASSUME NEW w \in Worlds
    PROVE  /\ w.session \in [Players -> SessionSet] /\ w.mob \in [Mobs -> MobSet]
           /\ w.duels \subseteq DuelSet /\ w.book \in BookSet
BY DEF Worlds

LEMMA PutSession ==
    ASSUME NEW w \in Worlds, NEW p \in Players, NEW s \in SessionSet
    PROVE  LET v == [w EXCEPT !.session[p] = s]
           IN /\ v \in Worlds
              /\ v.session[p] = s /\ \A q \in Players \ {p} : v.session[q] = w.session[q]
              /\ v.mob = w.mob /\ v.duels = w.duels /\ v.book = w.book
BY DEF Worlds

LEMMA PutMob ==
    ASSUME NEW w \in Worlds, NEW m \in Mobs, NEW s \in MobSet
    PROVE  LET v == [w EXCEPT !.mob[m] = s]
           IN /\ v \in Worlds
              /\ v.mob[m] = s /\ \A n \in Mobs \ {m} : v.mob[n] = w.mob[n]
              /\ v.session = w.session /\ v.duels = w.duels /\ v.book = w.book
BY DEF Worlds

LEMMA MobFields ==
    ASSUME NEW s \in MobSet
    PROVE  /\ s.alive \in BOOLEAN /\ s.targetable \in BOOLEAN /\ s.health \in 0..MobHealth
           /\ s.ai \in {"idle", "roused", "evading", "returning", "dead"}
           /\ s.target \in Players \cup {Nobody} /\ s.threat \subseteq Players
           /\ s.aura \in Players \cup {Nobody}
BY DEF MobSet

LEMMA ConstantFacts ==
    /\ MaxHealth \in Nat /\ MobHealth \in Nat /\ MaxBouts \in Nat
    /\ MaxHealth > 1 /\ MobHealth > 0
    /\ Nobody \notin Players /\ Nobody \notin Mobs /\ Players \cap Mobs = {}
    /\ \A p \in Players : Knows[p] \subseteq Abilities
BY BattleAssumption

LEMMA NewRecords ==
    /\ NoSession \in SessionSet /\ NewSession \in SessionSet /\ NewMob \in MobSet
    /\ NoSession.alive = FALSE /\ NoSession.health = 0 /\ NoSession.linked = "none"
    /\ NewSession.alive = TRUE /\ NewSession.health = MaxHealth
    /\ NewMob.alive = TRUE /\ NewMob.health = MobHealth
<1>1. NotCasting \in Castings /\ Nobody \in Targets
  BY DEF Castings, Targets
<1>2. /\ NoSession \in SessionSet
      /\ NoSession.alive = FALSE /\ NoSession.health = 0 /\ NoSession.linked = "none"
  BY <1>1, ConstantFacts DEF NoSession, SessionSet
<1>3. /\ NewSession = [NoSession EXCEPT !.linked = "on", !.alive = TRUE, !.health = MaxHealth]
      /\ MaxHealth \in 0..MaxHealth
  BY ConstantFacts DEF NewSession
<1>4. NewSession \in SessionSet /\ NewSession.alive = TRUE /\ NewSession.health = MaxHealth
  BY <1>2, <1>3 DEF SessionSet
<1>5. NewMob \in MobSet /\ NewMob.alive = TRUE /\ NewMob.health = MobHealth
  BY ConstantFacts DEF NewMob, MobSet
<1> QED
  BY <1>2, <1>4, <1>5

-----------------------------------------------------------------------------
(* What holds of every world. *)

Active(w) == {d \in w.duels : d.state = "active"}
Both(d) == {d.challenger, d.target}

\* A character is in one duel at most, and duels that are on or were won are
\* among those that began.  Only a failed save keeps a won duel from being lost.
Fair(w) ==
    /\ IsFiniteSet(w.duels)
    /\ \A d \in w.duels : d.challenger # d.target
    /\ \A d, e \in w.duels : Both(d) \cap Both(e) # {} => d = e
    /\ "saveFails" \notin Races => w.book.won = w.book.lost
    /\ w.book.won + Cardinality(Active(w)) <= w.book.bouts

Lively(s) == s.alive <=> s.health > 0
Hale(w) ==
    "bleeds" \notin Races /\ "mendsDead" \notin Races =>
        /\ \A p \in Players : Lively(w.session[p])
        /\ \A m \in Mobs : Lively(w.mob[m])

Paid(w) ==
    "saveFails" \notin Races =>
        \A p \in Players : /\ w.book.credit[p] = w.book.stored[p]
                           /\ w.book.stored[p] = w.book.killed[p]
                           /\ w.book.loot[p] = w.book.killed[p]

Good(w) == w \in Worlds /\ Fair(w) /\ Hale(w) /\ Paid(w)

LEMMA FewerDuels ==
    ASSUME NEW w \in Worlds, NEW v \in Worlds, Fair(w), v.duels \subseteq w.duels,
           v.book.won = w.book.won, v.book.lost = w.book.lost, v.book.bouts = w.book.bouts
    PROVE  Fair(v)
<1>1. IsFiniteSet(w.duels) /\ IsFiniteSet(v.duels)
  BY FS_Subset DEF Fair
<1>2. Active(v) \subseteq Active(w) /\ IsFiniteSet(Active(w))
  BY <1>1, FS_Subset DEF Active
<1>3. /\ Cardinality(Active(v)) <= Cardinality(Active(w))
      /\ Cardinality(Active(v)) \in Nat /\ Cardinality(Active(w)) \in Nat
  BY <1>2, FS_Subset, FS_CardinalityType
<1>4. w.book.won \in Nat /\ w.book.bouts \in Nat
  BY DEF Worlds, BookSet
<1>5. v.book.won + Cardinality(Active(v)) <= v.book.bouts
  BY <1>3, <1>4 DEF Fair
<1> QED
  BY <1>1, <1>5 DEF Fair

\* What the saves of a winner and a loser leave in the books.
Outcome(w, v) ==
    \/ v.book.won = w.book.won + 1 /\ v.book.lost = w.book.lost + 1
    \/ /\ "saveFails" \in Races
       /\ v.book.won = w.book.won \/ v.book.won = w.book.won + 1

LEMMA EndedDuel ==
    ASSUME NEW w \in Worlds, NEW v \in Worlds, Fair(w), NEW d \in Active(w),
           v.duels \subseteq w.duels \ {d}, v.book.bouts = w.book.bouts,
           Outcome(w, v)
    PROVE  Fair(v)
<1>1. IsFiniteSet(w.duels) /\ IsFiniteSet(v.duels)
  BY FS_Subset DEF Fair
<1>2. Active(v) \subseteq Active(w) \ {d} /\ IsFiniteSet(Active(w))
  BY <1>1, FS_Subset DEF Active
<1>3. /\ IsFiniteSet(Active(w) \ {d})
      /\ Cardinality(Active(w) \ {d}) = Cardinality(Active(w)) - 1
  BY <1>2, FS_RemoveElement
<1>4. /\ Cardinality(Active(v)) <= Cardinality(Active(w)) - 1
      /\ Cardinality(Active(v)) \in Nat /\ Cardinality(Active(w)) \in Nat
  BY <1>2, <1>3, FS_Subset, FS_CardinalityType
<1>5. w.book.won \in Nat /\ w.book.bouts \in Nat /\ w.book.lost \in Nat
  BY DEF Worlds, BookSet
<1>6. /\ v.book.won + Cardinality(Active(v)) <= v.book.bouts
      /\ "saveFails" \notin Races => v.book.won = v.book.lost
  BY <1>4, <1>5 DEF Fair, Outcome
<1> QED
  BY <1>1, <1>6 DEF Fair

\* A duel that is answered, or begins.
LEMMA ChangedDuel ==
    ASSUME NEW w \in Worlds, NEW v \in Worlds, Fair(w), NEW d \in w.duels, NEW e \in DuelSet,
           Both(e) = Both(d), e.challenger # e.target, v.duels = (w.duels \ {d}) \cup {e},
           v.book.won = w.book.won, v.book.lost = w.book.lost,
           \/ e.state # "active" /\ v.book.bouts = w.book.bouts
           \/ v.book.bouts = w.book.bouts + 1
    PROVE  Fair(v)
<1>1. IsFiniteSet(w.duels) /\ IsFiniteSet(w.duels \ {d}) /\ IsFiniteSet(v.duels)
  BY FS_Subset, FS_AddElement DEF Fair
<1>2. IsFiniteSet(Active(w)) /\ IsFiniteSet(Active(w) \cup {e})
  <2>1. Active(w) \subseteq w.duels
    BY DEF Active
  <2>2. IsFiniteSet(Active(w))
    BY <1>1, <2>1, FS_Subset
  <2> QED
    BY <2>2, FS_AddElement
<1>3. /\ Cardinality(Active(w) \cup {e}) <= Cardinality(Active(w)) + 1
      /\ Cardinality(Active(w)) \in Nat
  BY <1>2, FS_AddElement, FS_CardinalityType
<1>4. w.book.won \in Nat /\ w.book.bouts \in Nat
  BY DEF Worlds, BookSet
<1>5. CASE e.state # "active" /\ v.book.bouts = w.book.bouts
  <2>1. Active(v) \subseteq Active(w)
    BY <1>5 DEF Active
  <2>2. Cardinality(Active(v)) <= Cardinality(Active(w)) /\ Cardinality(Active(v)) \in Nat
    BY <2>1, <1>2, FS_Subset, FS_CardinalityType
  <2>3. v.book.won + Cardinality(Active(v)) <= v.book.bouts
    BY <2>2, <1>5, <1>3, <1>4 DEF Fair
  <2>4. \A a, b \in v.duels : Both(a) \cap Both(b) # {} => a = b
    BY DEF Fair
  <2> QED
    BY <2>3, <2>4, <1>1 DEF Fair
<1>6. CASE v.book.bouts = w.book.bouts + 1
  <2>1. Active(v) \subseteq Active(w) \cup {e}
    BY DEF Active
  <2>2. /\ Cardinality(Active(v)) <= Cardinality(Active(w) \cup {e})
        /\ Cardinality(Active(v)) \in Nat /\ Cardinality(Active(w) \cup {e}) \in Nat
    BY <2>1, <1>2, FS_Subset, FS_CardinalityType
  <2>3. v.book.won + Cardinality(Active(v)) <= v.book.bouts
    BY <2>2, <1>6, <1>3, <1>4 DEF Fair
  <2>4. \A a, b \in v.duels : Both(a) \cap Both(b) # {} => a = b
    BY DEF Fair
  <2> QED
    BY <2>3, <2>4, <1>1 DEF Fair
<1> QED
  BY <1>5, <1>6

LEMMA AddedDuel ==
    ASSUME NEW w \in Worlds, NEW v \in Worlds, Fair(w), NEW e \in DuelSet,
           \A d \in w.duels : Both(d) \cap Both(e) = {},
           e.challenger # e.target, e.state # "active",
           v.duels = w.duels \cup {e}, v.book = w.book
    PROVE  Fair(v)
<1>1. IsFiniteSet(v.duels)
  BY FS_AddElement DEF Fair
<1>2. Active(v) = Active(w)
  BY DEF Active
<1>3. \A a, b \in v.duels : Both(a) \cap Both(b) # {} => a = b
  BY DEF Fair
<1> QED
  BY <1>1, <1>2, <1>3 DEF Fair

-----------------------------------------------------------------------------
(* Steps that hurt and heal nobody. *)

\* Nobody's life or health changes, nothing is booked and no duel is new ...
Calm(w, v) ==
    /\ v \in Worlds
    /\ \A p \in Players : /\ v.session[p].alive = w.session[p].alive
                          /\ v.session[p].health = w.session[p].health
    /\ \A m \in Mobs : /\ v.mob[m].alive = w.mob[m].alive
                       /\ v.mob[m].health = w.mob[m].health
    /\ v.duels \subseteq w.duels /\ v.book = w.book

\* ... and nobody comes, goes or moves.
Stay(w, v) ==
    \A p \in Players : /\ v.session[p].linked = w.session[p].linked
                       /\ v.session[p].place = w.session[p].place

Gentle(w, v) == Calm(w, v) /\ Stay(w, v)

LEMMA CalmKeeps ==
    ASSUME NEW w, NEW v, Good(w), Calm(w, v)
    PROVE  Good(v)
<1>1. w \in Worlds /\ v \in Worlds
  BY DEF Good, Calm
<1>2. Fair(v)
  BY <1>1, FewerDuels DEF Good, Calm
<1>3. Hale(v)
  BY DEF Good, Calm, Hale, Lively
<1>4. Paid(v)
  BY DEF Good, Calm, Paid
<1> QED
  BY <1>1, <1>2, <1>3, <1>4 DEF Good

LEMMA GentleSelf == ASSUME NEW w \in Worlds PROVE Gentle(w, w)
BY DEF Gentle, Calm, Stay

LEMMA CalmChain ==
    ASSUME NEW u, NEW v, NEW w, Calm(u, v), Calm(v, w)
    PROVE  Calm(u, w)
BY DEF Calm

LEMMA GentleChain ==
    ASSUME NEW u, NEW v, NEW w, Gentle(u, v), Gentle(v, w)
    PROVE  Gentle(u, w)
BY CalmChain DEF Gentle, Stay

LEMMA ClearTargetGentle ==
    ASSUME NEW w \in Worlds, NEW P
    PROVE  Gentle(w, ClearTarget(w, P)) /\ ClearTarget(w, P).duels = w.duels
<1> DEFINE F == [p \in Players |->
                   IF p \in P THEN [w.session[p] EXCEPT !.target = Nobody, !.auto = FALSE,
                                                        !.casting = NotCasting]
                   ELSE w.session[p]]
           v == ClearTarget(w, P)
<1>1. \A p \in Players : w.session[p] \in SessionSet
  BY WorldFields
<1>2. \A p \in Players :
         /\ F[p] \in SessionSet
         /\ F[p].alive = w.session[p].alive /\ F[p].health = w.session[p].health
         /\ F[p].linked = w.session[p].linked /\ F[p].place = w.session[p].place
  <2> SUFFICES ASSUME NEW p \in Players
               PROVE /\ F[p] \in SessionSet
                     /\ F[p].alive = w.session[p].alive /\ F[p].health = w.session[p].health
                     /\ F[p].linked = w.session[p].linked /\ F[p].place = w.session[p].place
    OBVIOUS
  <2>1. w.session[p] \in SessionSet
    BY <1>1
  <2>2. [w.session[p] EXCEPT !.target = Nobody, !.auto = FALSE, !.casting = NotCasting] \in SessionSet
    BY <2>1, SessionUpdates
  <2> QED
    BY <2>1, <2>2 DEF SessionSet
<1>3. F \in [Players -> SessionSet]
  BY <1>2
<1>4. v = [w EXCEPT !.session = F]
  BY DEF ClearTarget
<1> HIDE DEF F
<1>5. /\ v \in Worlds /\ v.session = F /\ v.mob = w.mob
      /\ v.duels = w.duels /\ v.book = w.book
  BY <1>3, <1>4 DEF Worlds
<1> QED
  BY <1>2, <1>5 DEF Gentle, Calm, Stay

LEMMA StopAutoAttackGentle ==
    ASSUME NEW w \in Worlds, NEW p \in Players
    PROVE  Gentle(w, StopAutoAttack(w, p))
<1> DEFINE s == [w.session[p] EXCEPT !.auto = FALSE]
<1>1. w.session[p] \in SessionSet
  BY WorldFields
<1>2. s \in SessionSet
  BY <1>1, SessionUpdates
<1>3. StopAutoAttack(w, p) = [w EXCEPT !.session[p] = s]
  BY DEF StopAutoAttack
<1>4. s.alive = w.session[p].alive /\ s.health = w.session[p].health
      /\ s.linked = w.session[p].linked /\ s.place = w.session[p].place
  BY <1>1 DEF SessionSet
<1> HIDE DEF s
<1> DEFINE v == [w EXCEPT !.session[p] = s]
<1>5. /\ v \in Worlds /\ v.session[p] = s /\ \A q \in Players \ {p} : v.session[q] = w.session[q]
      /\ v.mob = w.mob /\ v.duels = w.duels /\ v.book = w.book
  BY <1>2, PutSession
<1> HIDE DEF v
<1>6. StopAutoAttack(w, p) = v
  BY <1>3 DEF v
<1> QED
  BY <1>4, <1>5, <1>6 DEF Gentle, Calm, Stay

LEMMA CancelCastGentle ==
    ASSUME NEW w \in Worlds, NEW p \in Players
    PROVE  Gentle(w, CancelCast(w, p)) /\ CancelCast(w, p).duels = w.duels
<1> DEFINE s == [w.session[p] EXCEPT !.casting = NotCasting]
<1>1. w.session[p] \in SessionSet /\ NotCasting \in Castings
  BY WorldFields DEF Castings
<1>2. s \in SessionSet
  BY <1>1, SessionUpdates
<1>3. CancelCast(w, p) = [w EXCEPT !.session[p] = s]
  BY DEF CancelCast
<1>4. s.alive = w.session[p].alive /\ s.health = w.session[p].health
      /\ s.linked = w.session[p].linked /\ s.place = w.session[p].place
  BY <1>1 DEF SessionSet
<1> HIDE DEF s
<1> DEFINE v == [w EXCEPT !.session[p] = s]
<1>5. /\ v \in Worlds /\ v.session[p] = s /\ \A q \in Players \ {p} : v.session[q] = w.session[q]
      /\ v.mob = w.mob /\ v.duels = w.duels /\ v.book = w.book
  BY <1>2, PutSession
<1> HIDE DEF v
<1>6. CancelCast(w, p) = v
  BY <1>3 DEF v
<1> QED
  BY <1>4, <1>5, <1>6 DEF Gentle, Calm, Stay

\* A mob's record is replaced by one as lively.
LEMMA PutMobGentle ==
    ASSUME NEW w \in Worlds, NEW m \in Mobs, NEW s \in MobSet,
           s.alive = w.mob[m].alive, s.health = w.mob[m].health
    PROVE  Gentle(w, [w EXCEPT !.mob[m] = s])
BY PutMob DEF Gentle, Calm, Stay

LEMMA MobUpdates ==
    ASSUME NEW s \in MobSet
    PROVE  /\ \A x \in Players \cup {Nobody} : [s EXCEPT !.aura = x] \in MobSet
           /\ \A x \in SUBSET Players : [s EXCEPT !.threat = x] \in MobSet
           /\ \A x \in BOOLEAN : [s EXCEPT !.targetable = x] \in MobSet
           /\ \A x \in 0..MobHealth : [s EXCEPT !.health = x] \in MobSet
           /\ \A x \in {"idle", "roused", "evading", "returning", "dead"} : [s EXCEPT !.ai = x] \in MobSet
BY DEF MobSet

LEMMA ClearMobAggroGentle ==
    ASSUME NEW w \in Worlds, NEW p
    PROVE  Gentle(w, ClearMobAggro(w, p)) /\ ClearMobAggro(w, p).duels = w.duels
                /\ ClearMobAggro(w, p).session = w.session
<1> DEFINE F == [m \in Mobs |-> Unbothered(w.mob[m], p)]
           v == ClearMobAggro(w, p)
<1>2. \A m \in Mobs : F[m] \in MobSet /\ F[m].alive = w.mob[m].alive /\ F[m].health = w.mob[m].health
  <2> SUFFICES ASSUME NEW m \in Mobs
               PROVE  F[m] \in MobSet /\ F[m].alive = w.mob[m].alive /\ F[m].health = w.mob[m].health
    OBVIOUS
  <2> DEFINE s == w.mob[m]
             threat == s.threat \ {p}
             target == IF s.target = p THEN HighestThreatTarget(threat) ELSE s.target
             ai == IF s.target = p /\ target = Nobody /\ s.ai = "roused" THEN "idle" ELSE s.ai
  <2>1. s \in MobSet
    BY WorldFields
  <2>2. threat \subseteq Players
    BY <2>1, MobFields
  <2>3. target \in Players \cup {Nobody}
    BY <2>1, <2>2, MobFields DEF HighestThreatTarget
  <2>4. ai \in {"idle", "roused", "evading", "returning", "dead"}
    BY <2>1, MobFields
  <2>5. F[m] = [s EXCEPT !.threat = threat, !.target = target, !.ai = ai]
    BY DEF Unbothered
  <2> HIDE DEF s, threat, target, ai
  <2>6. [s EXCEPT !.threat = threat, !.target = target, !.ai = ai] \in MobSet
    BY <2>1, <2>2, <2>3, <2>4 DEF MobSet
  <2> QED
    BY <2>1, <2>5, <2>6 DEF MobSet, s
<1>3. F \in [Mobs -> MobSet]
  BY <1>2
<1>4. v = [w EXCEPT !.mob = F]
  BY DEF ClearMobAggro
<1> HIDE DEF F
<1>5. /\ v \in Worlds /\ v.mob = F /\ v.session = w.session
      /\ v.duels = w.duels /\ v.book = w.book
  BY <1>3, <1>4 DEF Worlds
<1> QED
  BY <1>2, <1>5 DEF Gentle, Calm, Stay

LEMMA AddMobThreatGentle ==
    ASSUME NEW w \in Worlds, NEW p \in Players, NEW m \in Mobs
    PROVE  Gentle(w, AddMobThreat(w, p, m)) /\ AddMobThreat(w, p, m).duels = w.duels
           /\ AddMobThreat(w, p, m).session = w.session
<1> DEFINE t == w.mob[m]
           ai == IF t.ai = "idle" THEN "roused" ELSE t.ai
           s == [t EXCEPT !.threat = t.threat \cup {p}, !.target = p, !.ai = ai]
<1>1. t \in MobSet
  BY WorldFields
<1>2. ai \in {"idle", "roused", "evading", "returning", "dead"} /\ t.threat \cup {p} \subseteq Players
  BY <1>1, MobFields
<1>3. AddMobThreat(w, p, m) = [w EXCEPT !.mob[m] = s]
  BY DEF AddMobThreat, Worlds
<1> HIDE DEF ai
<1>4. s \in MobSet /\ s.alive = t.alive /\ s.health = t.health
  BY <1>1, <1>2 DEF MobSet
<1> HIDE DEF s
<1>5. Gentle(w, [w EXCEPT !.mob[m] = s])
  BY <1>4, PutMobGentle
<1>6. [w EXCEPT !.mob[m] = s].session = w.session /\ [w EXCEPT !.mob[m] = s].duels = w.duels
  BY <1>4, PutMob
<1> QED
  BY <1>3, <1>5, <1>6

LEMMA CancelDuelsGentle ==
    ASSUME NEW w \in Worlds, NEW D
    PROVE  Gentle(w, CancelDuels(w, D)) /\ CancelDuels(w, D).duels = w.duels \ D
<1> DEFINE v == [w EXCEPT !.duels = w.duels \ D]
           both == UNION {{d.challenger, d.target} : d \in D}
<1>1. v \in Worlds /\ Gentle(w, v) /\ v.duels = w.duels \ D
  BY DEF Worlds, Gentle, Calm, Stay
<1>2. CancelDuels(w, D) = ClearTarget(v, both)
  BY DEF CancelDuels
<1> HIDE DEF v, both
<1> QED
  BY <1>1, <1>2, ClearTargetGentle, GentleChain

LEMMA PutSessionGentle ==
    ASSUME NEW w \in Worlds, NEW p \in Players, NEW s \in SessionSet,
           s.alive = w.session[p].alive, s.health = w.session[p].health,
           s.linked = w.session[p].linked, s.place = w.session[p].place
    PROVE  Gentle(w, [w EXCEPT !.session[p] = s]) /\ [w EXCEPT !.session[p] = s].duels = w.duels
<1> DEFINE v == [w EXCEPT !.session[p] = s]
<1>1. /\ v \in Worlds /\ v.session[p] = s /\ \A q \in Players \ {p} : v.session[q] = w.session[q]
      /\ v.mob = w.mob /\ v.duels = w.duels /\ v.book = w.book
  BY PutSession
<1> HIDE DEF v
<1>2. Gentle(w, v) /\ v.duels = w.duels
  BY <1>1 DEF Gentle, Calm, Stay
<1> QED
  BY <1>2 DEF v

-----------------------------------------------------------------------------
(* Kills. *)

LEMMA BookFields ==
    ASSUME NEW w \in Worlds
    PROVE  /\ w.book \in BookSet
           /\ w.book.credit \in [Players -> Nat] /\ w.book.stored \in [Players -> Nat]
           /\ w.book.loot \in [Players -> Nat] /\ w.book.killed \in [Players -> Nat]
           /\ w.book.won \in Nat /\ w.book.lost \in Nat /\ w.book.bouts \in Nat
BY DEF Worlds, BookSet

LEMMA PutBook ==
    ASSUME NEW w \in Worlds, NEW b \in BookSet
    PROVE  LET v == [w EXCEPT !.book = b]
           IN /\ v \in Worlds /\ v.session = w.session /\ v.mob = w.mob
              /\ v.duels = w.duels /\ v.book = b
BY DEF Worlds

\* Who survives and moves as in w: everything but what is booked, and mobs.
Unhurt(w, v) ==
    /\ \A p \in Players : /\ v.session[p].alive = w.session[p].alive
                          /\ v.session[p].health = w.session[p].health
    /\ v.duels = w.duels
    /\ v.book.won = w.book.won /\ v.book.lost = w.book.lost /\ v.book.bouts = w.book.bouts

Corpse == [NewMob EXCEPT !.alive = FALSE, !.targetable = FALSE, !.ai = "dead", !.health = 0]

LEMMA DeadMob == Corpse \in MobSet /\ Corpse.alive = FALSE /\ Corpse.health = 0
<1> DEFINE x1 == [NewMob EXCEPT !.alive = FALSE]
           x2 == [x1 EXCEPT !.targetable = FALSE]
           x3 == [x2 EXCEPT !.ai = "dead"]
           x4 == [x3 EXCEPT !.health = 0]
<1>1. x1 \in MobSet /\ x1.alive = FALSE
  BY NewRecords DEF MobSet
<1> HIDE DEF x1
<1>2. x2 \in MobSet /\ x2.alive = FALSE
  BY <1>1 DEF MobSet
<1> HIDE DEF x2
<1>3. x3 \in MobSet /\ x3.alive = FALSE
  BY <1>2 DEF MobSet
<1> HIDE DEF x3
<1>4. x4 \in MobSet /\ x4.alive = FALSE /\ x4.health = 0
  BY <1>3, ConstantFacts DEF MobSet
<1>5. Corpse = x4
  BY DEF Corpse, x1, x2, x3
<1> QED
  BY <1>4, <1>5

Struck(w, m, s) == [w EXCEPT !.mob[m] = s]

\* Only a mob is dead and its death is booked.
Died(w, v, p, m) ==
    /\ v \in Worlds /\ Stay(w, v) /\ Unhurt(w, v)
    /\ v.mob[m].alive = FALSE /\ v.mob[m].health = 0
    /\ \A n \in Mobs \ {m} : v.mob[n] = w.mob[n]
    /\ v.book.killed[p] = w.book.killed[p] + 1
    /\ \A q \in Players : q # p => v.book.killed[q] = w.book.killed[q]
    /\ v.book.credit = w.book.credit /\ v.book.stored = w.book.stored
    /\ v.book.loot = w.book.loot

LEMMA DieSteps ==
    ASSUME NEW w \in Worlds, NEW p \in Players, NEW m \in Mobs, NEW s, s.alive = TRUE
    PROVE  Died(w, Die(Struck(w, m, s), p, m), p, m)
<1> DEFINE dead == [NewMob EXCEPT !.alive = FALSE, !.targetable = FALSE, !.ai = "dead", !.health = 0]
           b == [w.book EXCEPT !.killed[p] = w.book.killed[p] + 1]
           hurt == [w EXCEPT !.mob[m] = s]
           z == [hurt EXCEPT !.mob[m] = dead,
                             !.book.killed[p] = IF hurt.mob[m].alive THEN @ + 1 ELSE @]
           y == [session |-> w.session, mob |-> [w.mob EXCEPT ![m] = dead], duels |-> w.duels, book |-> b]
           P == {q \in Players : z.session[q].target = m}
           v == ClearTarget(y, P)
<1>1. dead \in MobSet /\ dead.alive = FALSE /\ dead.health = 0
  BY DeadMob DEF Corpse
<1>2. /\ b \in BookSet /\ b.won = w.book.won /\ b.lost = w.book.lost /\ b.bouts = w.book.bouts
      /\ b.killed[p] = w.book.killed[p] + 1
      /\ \A q \in Players : q # p => b.killed[q] = w.book.killed[q]
      /\ b.credit = w.book.credit /\ b.stored = w.book.stored /\ b.loot = w.book.loot
  BY BookFields DEF BookSet
<1>3. w = [session |-> w.session, mob |-> w.mob, duels |-> w.duels, book |-> w.book]
      /\ w.mob \in [Mobs -> MobSet]
  BY DEF Worlds
<1>4. hurt = [session |-> w.session, mob |-> [w.mob EXCEPT ![m] = s], duels |-> w.duels, book |-> w.book]
      /\ hurt.mob[m].alive
  BY <1>3
<1>5. z = y
  <2>1. [[w.mob EXCEPT ![m] = s] EXCEPT ![m] = dead] = [w.mob EXCEPT ![m] = dead]
    BY <1>3
  <2> DEFINE k == IF hurt.mob[m].alive THEN hurt.book.killed[p] + 1 ELSE hurt.book.killed[p]
  <2>2. z = [hurt EXCEPT !.mob = [hurt.mob EXCEPT ![m] = dead],
                         !.book = [hurt.book EXCEPT !.killed[p] = k]]
    OBVIOUS
  <2>3. k = w.book.killed[p] + 1
    BY <1>4
  <2>4. [hurt.mob EXCEPT ![m] = dead] = [w.mob EXCEPT ![m] = dead]
        /\ [hurt.book EXCEPT !.killed[p] = k] = b
    BY <1>4, <2>1, <2>3
  <2> HIDE DEF k, z, b, dead
  <2> QED
    BY <1>4, <2>2, <2>4
<1>6. Die(hurt, p, m) = v
  BY <1>5 DEF Die, ClearMobTargetFromAllSessions
<1> HIDE DEF dead, b
<1>7. /\ y \in Worlds /\ y.session = w.session /\ y.duels = w.duels /\ y.book = b
      /\ y.mob[m] = dead /\ \A n \in Mobs \ {m} : y.mob[n] = w.mob[n]
  BY <1>1, <1>2, WorldFields DEF Worlds
<1> HIDE DEF y, P
<1>8. Gentle(y, v) /\ v.duels = y.duels
  BY <1>7, ClearTargetGentle
<1>9. v.mob = y.mob
  BY <1>7 DEF ClearTarget, Worlds
<1> HIDE DEF v
<1>10. /\ v \in Worlds /\ Stay(w, v) /\ Unhurt(w, v) /\ v.book = b
       /\ v.mob[m].alive = FALSE /\ v.mob[m].health = 0
       /\ \A n \in Mobs \ {m} : v.mob[n] = w.mob[n]
  BY <1>1, <1>2, <1>7, <1>8, <1>9 DEF Gentle, Calm, Stay, Unhurt
<1> QED
  <2>1. Died(w, v, p, m)
    <3> HIDE DEF z, hurt
    <3>2. v.book = b
      BY <1>10
    <3>1. /\ v.book.killed[p] = w.book.killed[p] + 1
          /\ \A q \in Players : q # p => v.book.killed[q] = w.book.killed[q]
          /\ v.book.credit = w.book.credit /\ v.book.stored = w.book.stored
          /\ v.book.loot = w.book.loot
      BY <1>2, <3>2
    <3> QED
      BY <3>1, <1>10 DEF Died
  <2>2. Struck(w, m, s) = hurt
    BY DEF Struck
  <2> HIDE DEF hurt
  <2> QED
    BY <1>6, <2>1, <2>2

Credited(w, p, saved) ==
    LET u == AwardKillCredit(w, p, saved) IN IF saved THEN CreateLootContainer(u, p) ELSE u

Booked(w, v, p, saved) ==
    /\ v \in Worlds /\ v.session = w.session /\ v.mob = w.mob /\ v.duels = w.duels
    /\ v.book.won = w.book.won /\ v.book.lost = w.book.lost /\ v.book.bouts = w.book.bouts
    /\ v.book.killed = w.book.killed
    /\ \A q \in Players : q # p =>
          /\ v.book.credit[q] = w.book.credit[q] /\ v.book.stored[q] = w.book.stored[q]
          /\ v.book.loot[q] = w.book.loot[q]
    /\ saved => /\ v.book.credit[p] = w.book.credit[p] + 1
                /\ v.book.stored[p] = w.book.credit[p] + 1
                /\ v.book.loot[p] = w.book.loot[p] + 1

LEMMA PaidSteps ==
    ASSUME NEW w \in Worlds, NEW p \in Players, NEW saved \in BOOLEAN
    PROVE  Booked(w, Credited(w, p, saved), p, saved)
<1> DEFINE b == w.book
           c1 == [b EXCEPT !.credit[p] = b.credit[p] + 1,
                           !.stored[p] = IF saved THEN b.credit[p] + 1 ELSE b.stored[p]]
           u == AwardKillCredit(w, p, saved)
           c2 == [c1 EXCEPT !.loot[p] = b.loot[p] + 1]
           v == Credited(w, p, saved)
<1>1. /\ b \in BookSet /\ b.credit \in [Players -> Nat] /\ b.stored \in [Players -> Nat]
      /\ b.loot \in [Players -> Nat] /\ b.killed \in [Players -> Nat]
  BY BookFields
<1>2. u = [w EXCEPT !.book = c1]
  BY DEF AwardKillCredit, Worlds
<1> HIDE DEF b
<1>3. /\ c1 \in BookSet /\ c1.won = b.won /\ c1.lost = b.lost /\ c1.bouts = b.bouts
      /\ c1.killed = b.killed /\ c1.loot = b.loot
      /\ \A q \in Players : q # p => c1.credit[q] = b.credit[q] /\ c1.stored[q] = b.stored[q]
      /\ saved => c1.credit[p] = b.credit[p] + 1 /\ c1.stored[p] = b.credit[p] + 1
  <2> DEFINE k == [b.credit EXCEPT ![p] = b.credit[p] + 1]
             l == [b.stored EXCEPT ![p] = IF saved THEN b.credit[p] + 1 ELSE b.stored[p]]
  <2>1. k \in [Players -> Nat] /\ l \in [Players -> Nat]
    BY <1>1
  <2>2. c1 = [b EXCEPT !.credit = k, !.stored = l]
    OBVIOUS
  <2>3. /\ \A q \in Players : q # p => k[q] = b.credit[q] /\ l[q] = b.stored[q]
        /\ saved => k[p] = b.credit[p] + 1 /\ l[p] = b.credit[p] + 1
    BY <1>1
  <2> HIDE DEF k, l, c1
  <2>4. /\ c1 \in BookSet /\ c1.won = b.won /\ c1.lost = b.lost /\ c1.bouts = b.bouts
        /\ c1.killed = b.killed /\ c1.loot = b.loot /\ c1.credit = k /\ c1.stored = l
    BY <1>1, <2>1, <2>2 DEF BookSet
  <2> QED
    BY <2>3, <2>4
<1> HIDE DEF c1
<1>4. /\ c2 \in BookSet /\ c2.won = b.won /\ c2.lost = b.lost /\ c2.bouts = b.bouts
      /\ c2.killed = b.killed /\ c2.credit = c1.credit /\ c2.stored = c1.stored
      /\ \A q \in Players : q # p => c2.loot[q] = b.loot[q]
      /\ c2.loot[p] = b.loot[p] + 1
  <2>1. c1.loot \in [Players -> Nat]
    BY <1>1, <1>3
  <2>2. [c1.loot EXCEPT ![p] = b.loot[p] + 1] \in [Players -> Nat]
    BY <1>1, <2>1
  <2>3. c2 = [c1 EXCEPT !.loot = [c1.loot EXCEPT ![p] = b.loot[p] + 1]]
    OBVIOUS
  <2>4. /\ c2 \in BookSet /\ c2.won = c1.won /\ c2.lost = c1.lost /\ c2.bouts = c1.bouts
        /\ c2.killed = c1.killed /\ c2.credit = c1.credit /\ c2.stored = c1.stored
        /\ c2.loot = [c1.loot EXCEPT ![p] = b.loot[p] + 1]
    BY <1>3, <2>2, <2>3 DEF BookSet
  <2> HIDE DEF c2
  <2> QED
    BY <1>1, <1>3, <2>4
<1>5. /\ u \in Worlds /\ u.session = w.session /\ u.mob = w.mob /\ u.duels = w.duels /\ u.book = c1
  BY <1>2, <1>3, PutBook
<1>6. CreateLootContainer(u, p) = [u EXCEPT !.book = c2]
  BY <1>3, <1>5 DEF CreateLootContainer, Worlds
<1> HIDE DEF u, c2
<1>7. LET y == CreateLootContainer(u, p)
      IN /\ y \in Worlds /\ y.session = w.session /\ y.mob = w.mob /\ y.duels = w.duels /\ y.book = c2
  BY <1>4, <1>5, <1>6, PutBook
<1>10. v = IF saved THEN CreateLootContainer(u, p) ELSE u
  BY DEF u, Credited
<1> HIDE DEF v
<1>8. CASE saved
  BY <1>3, <1>4, <1>7, <1>8, <1>10 DEF b, v, Booked
<1>9. CASE ~saved
  BY <1>3, <1>5, <1>9, <1>10 DEF b, v, Booked
<1> QED
  BY <1>8, <1>9

LEMMA SavesAlways ==
    ASSUME NEW saved \in Saves
    PROVE  /\ saved \in {0, 1, 2} /\ ("saveFails" \notin Races => saved = 2)
           /\ (saved > 0) \in BOOLEAN /\ ("saveFails" \notin Races => saved > 0)
<1>1. 0..2 = {0, 1, 2}
  OBVIOUS
<1> QED
  BY <1>1 DEF Saves

\* A blow at a mob hurts no player and pays its last one.
LEMMA BlowAtMob ==
    ASSUME NEW w, Good(w), NEW p \in Players, NEW m \in Mobs,
           NEW saved \in BOOLEAN, "saveFails" \notin Races => saved
    PROVE  LET v == ApplyDamageToMob(w, p, m, saved)
           IN Good(v) /\ Stay(w, v) /\ Unhurt(w, v)
<1> DEFINE v == ApplyDamageToMob(w, p, m, saved)
           u == AddMobThreat(w, p, m)
           s == [u.mob[m] EXCEPT !.health = u.mob[m].health - 1]
           hurt == [u EXCEPT !.mob[m] = s]
<1>1. w \in Worlds /\ Fair(w) /\ Hale(w) /\ Paid(w)
  BY DEF Good
<1>2. /\ u \in Worlds /\ Gentle(w, u) /\ u.duels = w.duels /\ u.session = w.session /\ Good(u)
  BY <1>1, AddMobThreatGentle, CalmKeeps DEF Gentle, Calm
<1>3. [u EXCEPT !.mob[m].health = @ - 1] = hurt
  OBVIOUS
<1>4. /\ u.mob[m] \in MobSet /\ u.mob[m].alive = w.mob[m].alive /\ u.mob[m].health = w.mob[m].health
      /\ w.mob[m] \in MobSet /\ w.mob[m].health \in 0..MobHealth /\ u.book = w.book
  BY <1>1, <1>2, WorldFields, MobFields DEF Gentle, Calm
<1>5. CASE ~Hittable(w, m)
  BY <1>1, <1>5 DEF ApplyDamageToMob, Stay, Unhurt
<1>6. CASE Hittable(w, m) /\ ~Lethal(w, m)
  <2>1. v = hurt
    BY <1>3, <1>6 DEF ApplyDamageToMob
  <2>2. w.mob[m].alive /\ w.mob[m].health > 1
    BY <1>4, <1>6, ConstantFacts DEF Hittable, Lethal
  <2>3. s \in MobSet /\ s.alive = u.mob[m].alive /\ s.health = u.mob[m].health - 1
    <3>1. u.mob[m].health - 1 \in 0..MobHealth
      BY <2>2, <1>4, ConstantFacts
    <3> QED
      BY <3>1, <1>4 DEF MobSet
  <2> HIDE DEF s
  <2>4. /\ hurt \in Worlds /\ hurt.mob[m] = s /\ \A n \in Mobs \ {m} : hurt.mob[n] = u.mob[n]
        /\ hurt.session = u.session /\ hurt.duels = u.duels /\ hurt.book = u.book
    BY <2>3, <1>2, PutMob
  <2> HIDE DEF hurt
  <2>5. Fair(hurt)
    BY <2>4, <1>2, FewerDuels DEF Good
  <2>6. Hale(hurt)
    <3>1. s.alive = TRUE
      BY <2>2, <2>3, <1>4 DEF MobSet
    <3>2. s.health > 0
      BY <2>2, <2>3, <1>4, ConstantFacts
    <3>3. Lively(hurt.mob[m])
      BY <3>1, <3>2, <2>4 DEF Lively
    <3> QED
      BY <3>3, <2>4, <1>2 DEF Hale, Good
  <2>7. Paid(hurt)
    BY <2>4, <1>2 DEF Paid, Good
  <2>8. Stay(w, hurt) /\ Unhurt(w, hurt)
    BY <2>4, <1>2, <1>4 DEF Stay, Unhurt
  <2> QED
    BY <2>1, <2>4, <2>5, <2>6, <2>7, <2>8 DEF Good
<1>7. CASE Lethal(w, m)
  <2> DEFINE d == Die(hurt, p, m)
  <2>1. Hittable(w, m) /\ w.mob[m].alive /\ s.alive = TRUE
    BY <1>4, <1>7 DEF Lethal, Hittable, MobSet
  <2>2. v = Credited(d, p, saved)
    BY <1>3, <1>7, <2>1 DEF ApplyDamageToMob, Credited
  <2>11. d = Die(Struck(u, m, s), p, m)
    BY DEF Struck
  <2> HIDE DEF s, u, d
  <2>12. u \in Worlds /\ s.alive = TRUE
    BY <2>1, <1>2
  <2>3. Died(u, d, p, m)
    BY <2>11, <2>12, DieSteps
  <2> HIDE DEF hurt, v
  <2>4. saved \in BOOLEAN /\ ("saveFails" \notin Races => saved)
    OBVIOUS
  <2>13. d \in Worlds
    BY <2>3 DEF Died
  <2>5. Booked(d, v, p, saved)
    BY <2>2, <2>4, <2>13, PaidSteps
  <2>6. /\ d.book.killed[p] = w.book.killed[p] + 1
        /\ \A q \in Players : q # p => d.book.killed[q] = w.book.killed[q]
        /\ d.book.credit = w.book.credit /\ d.book.stored = w.book.stored
        /\ d.book.loot = w.book.loot
    BY <1>4, <2>3 DEF Died
  <2> HIDE DEF v
  <2>7. Stay(w, v) /\ Unhurt(w, v)
    BY <1>2, <1>4, <2>3, <2>5 DEF Stay, Unhurt, Died, Booked
  <2>8. Fair(v)
    BY <2>5, <2>7, <1>1, FewerDuels DEF Unhurt, Booked
  <2>9. Hale(v)
    BY <2>3, <2>5, <1>2 DEF Hale, Good, Lively, Unhurt, Died, Booked
  <2>10. Paid(v)
    BY <2>4, <2>5, <2>6, <1>1, BookFields DEF Paid, Booked
  <2> QED
    BY <2>5, <2>7, <2>8, <2>9, <2>10 DEF Good, v, Booked
<1> QED
  BY <1>5, <1>6, <1>7 DEF Lethal

-----------------------------------------------------------------------------
(* Duels. *)

Caused(w, p) ==
    \E d \in DuelsOf(w, p) : d.state = "active" /\ Together(w, d.challenger, d.target)

\* What fights do to a world: nobody dies, comes, goes or moves, and who is hurt
\* was hurt in a duel that was on, and stands.
Fought(w, v) ==
    /\ Good(v) /\ Stay(w, v) /\ v.duels \subseteq w.duels
    /\ \A p \in Players :
          /\ w.session[p].alive => v.session[p].alive
          /\ v.session[p].health < w.session[p].health =>
                Caused(w, p) /\ v.session[p].alive /\ v.session[p].health > 0

LEMMA CausedBefore ==
    ASSUME NEW u \in Worlds, NEW v, Stay(u, v), v.duels \subseteq u.duels,
           NEW p \in Players, Caused(v, p)
    PROVE  Caused(u, p)
<1>1. PICK d \in DuelsOf(v, p) : d.state = "active" /\ Together(v, d.challenger, d.target)
  BY DEF Caused
<1>2. d \in DuelsOf(u, p) /\ d.challenger \in Players /\ d.target \in Players
  BY <1>1, WorldFields DEF DuelsOf, DuelSet
<1>3. Together(u, d.challenger, d.target)
  BY <1>1, <1>2 DEF Together, Stay
<1> QED
  BY <1>1, <1>2, <1>3 DEF Caused

LEMMA HealthIsNumber ==
    ASSUME NEW w \in Worlds, NEW p \in Players
    PROVE  w.session[p].health \in Nat /\ w.session[p].health <= MaxHealth
           /\ w.session[p] \in SessionSet
BY WorldFields, SessionFields, ConstantFacts

LEMMA FoughtChain ==
    ASSUME NEW u, Good(u), NEW v, NEW w, Fought(u, v), Fought(v, w)
    PROVE  Fought(u, w)
<1>1. u \in Worlds /\ v \in Worlds /\ w \in Worlds
  BY DEF Good, Fought
<1>2. Stay(u, w) /\ w.duels \subseteq u.duels /\ Good(w)
  BY DEF Fought, Stay
<1>3. ASSUME NEW p \in Players, w.session[p].health < u.session[p].health
      PROVE  Caused(u, p) /\ w.session[p].alive /\ w.session[p].health > 0
  <2>1. /\ u.session[p].health \in Nat /\ v.session[p].health \in Nat /\ w.session[p].health \in Nat
    BY <1>1, HealthIsNumber
  <2>2. CASE w.session[p].health < v.session[p].health
    <3>1. Caused(v, p) /\ w.session[p].alive /\ w.session[p].health > 0
      BY <2>2 DEF Fought
    <3>2. Caused(u, p)
      BY <1>1, <3>1, CausedBefore DEF Fought
    <3> QED
      BY <3>1, <3>2
  <2>3. CASE v.session[p].health <= w.session[p].health
    <3>1. v.session[p].health < u.session[p].health
      BY <1>3, <2>1, <2>3
    <3>2. Caused(u, p) /\ v.session[p].alive /\ v.session[p].health > 0
      BY <3>1 DEF Fought
    <3>3. w.session[p].alive
      BY <3>2 DEF Fought
    <3> QED
      BY <2>1, <2>3, <3>2, <3>3
  <2> QED
    BY <2>1, <2>2, <2>3
<1>4. \A p \in Players : u.session[p].alive => w.session[p].alive
  BY DEF Fought
<1> QED
  BY <1>2, <1>3, <1>4 DEF Fought

LEMMA GentleFought ==
    ASSUME NEW w, Good(w), NEW v, Gentle(w, v)
    PROVE  Fought(w, v)
<1>1. w \in Worlds /\ Good(v)
  BY CalmKeeps DEF Good, Gentle
<1>2. \A p \in Players : w.session[p].health \in Nat
  BY <1>1, HealthIsNumber
<1> QED
  BY <1>1, <1>2 DEF Fought, Gentle, Calm

LEMMA MobFought ==
    ASSUME NEW w, Good(w), NEW p \in Players, NEW m \in Mobs,
           NEW saved \in BOOLEAN, "saveFails" \notin Races => saved
    PROVE  Fought(w, ApplyDamageToMob(w, p, m, saved))
<1> DEFINE v == ApplyDamageToMob(w, p, m, saved)
<1>1. Good(v) /\ Stay(w, v) /\ Unhurt(w, v)
  BY BlowAtMob
<1>2. \A q \in Players : w.session[q].health \in Nat
  BY HealthIsNumber DEF Good
<1> HIDE DEF v
<1>3. Fought(w, v)
  BY <1>1, <1>2 DEF Fought, Unhurt
<1> QED
  BY <1>3 DEF v

\* The outcome of a duel is booked on both sides.
Recorded(w, v) ==
    /\ v \in Worlds /\ v.session = w.session /\ v.mob = w.mob /\ v.duels = w.duels
    /\ v.book.bouts = w.book.bouts
    /\ v.book.credit = w.book.credit /\ v.book.stored = w.book.stored
    /\ v.book.loot = w.book.loot /\ v.book.killed = w.book.killed
    /\ Outcome(w, v)

LEMMA RecordSteps ==
    ASSUME NEW w \in Worlds, NEW saved \in Saves
    PROVE  Recorded(w, RecordDuelOutcome(w, saved))
<1> DEFINE won == IF saved > 0 THEN w.book.won + 1 ELSE w.book.won
           lost == IF saved > 1 THEN w.book.lost + 1 ELSE w.book.lost
           b == [w.book EXCEPT !.won = won, !.lost = lost]
           v == [w EXCEPT !.book = b]
<1>1. RecordDuelOutcome(w, saved) = v
  BY DEF RecordDuelOutcome, Worlds
<1>2. /\ won \in Nat /\ lost \in Nat
      /\ won = w.book.won \/ won = w.book.won + 1
      /\ "saveFails" \notin Races => won = w.book.won + 1 /\ lost = w.book.lost + 1
  BY BookFields, SavesAlways
<1> HIDE DEF won, lost
<1>3. /\ b \in BookSet /\ b.bouts = w.book.bouts /\ b.credit = w.book.credit
      /\ b.stored = w.book.stored /\ b.loot = w.book.loot /\ b.killed = w.book.killed
      /\ b.won = won /\ b.lost = lost
  <2>1. w.book \in BookSet
    BY BookFields
  <2> QED
    BY <1>2, <2>1 DEF BookSet
<1> HIDE DEF b
<1>4. /\ v \in Worlds /\ v.session = w.session /\ v.mob = w.mob
      /\ v.duels = w.duels /\ v.book = b
  BY <1>3, PutBook
<1> HIDE DEF v
<1>5. Outcome(w, v)
  BY <1>2, <1>3, <1>4 DEF Outcome
<1>6. Recorded(w, v)
  BY <1>3, <1>4, <1>5 DEF Recorded
<1> QED
  BY <1>1, <1>6

LEMMA EndDuelSteps ==
    ASSUME NEW w, Good(w), NEW d \in Active(w), NEW winner \in Both(d), NEW saved \in Saves
    PROVE  LET v == EndDuel(w, d, winner, saved)
           IN /\ Good(v) /\ Stay(w, v) /\ v.duels \subseteq w.duels
              /\ \A p \in Players :
                    /\ w.session[p].alive => v.session[p].alive
                    /\ w.session[p].health <= v.session[p].health
<1> DEFINE loser == CHOOSE p \in {d.challenger, d.target} : p # winner
           over == CancelDuels(w, {d})
           s == [over.session[loser] EXCEPT !.health = 1, !.alive = TRUE]
           lifted == IF w.session[loser].linked # "none" /\ w.session[loser].health < 1
                     THEN [over EXCEPT !.session[loser] = s] ELSE over
           v == RecordDuelOutcome(lifted, saved)
<1>1. w \in Worlds /\ Fair(w) /\ Hale(w) /\ Paid(w)
  BY DEF Good
<1>2. /\ d \in DuelSet /\ d.challenger # d.target /\ d.challenger \in Players /\ d.target \in Players
  BY <1>1, WorldFields DEF Active, Fair, DuelSet
<1>3. loser \in Players
  BY <1>2 DEF Both
<1> DEFINE raised == [over EXCEPT !.session[loser].health = 1, !.session[loser].alive = TRUE]
<1>4. EndDuel(w, d, winner, saved) =
        RecordDuelOutcome(IF w.session[loser].linked # "none" /\ w.session[loser].health < 1
                          THEN raised ELSE over, saved)
  BY DEF EndDuel
<1>5. /\ over \in Worlds /\ Gentle(w, over) /\ over.duels = w.duels \ {d}
  BY <1>1, CancelDuelsGentle DEF Gentle, Calm
<1> HIDE DEF loser, over
<1>6. /\ s \in SessionSet /\ s.alive = TRUE /\ s.health = 1
      /\ s.linked = over.session[loser].linked /\ s.place = over.session[loser].place
  <2>1. over.session[loser] \in SessionSet
    BY <1>3, <1>5, WorldFields
  <2>2. 1 \in 0..MaxHealth
    BY ConstantFacts
  <2>3. s \in SessionSet
    BY <2>1, <2>2, SessionUpdates
  <2> QED
    BY <2>1, <2>3 DEF SessionSet
<1>16. raised = [over EXCEPT !.session[loser] = s]
  <2>1. over.session \in [Players -> SessionSet] /\ loser \in Players
    BY <1>3, <1>5, WorldFields
  <2>2. raised = [over EXCEPT !.session =
                    [[over.session EXCEPT ![loser] = [over.session[loser] EXCEPT !.health = 1]]
                       EXCEPT ![loser] = [@ EXCEPT !.alive = TRUE]]]
    BY <1>5 DEF Worlds
  <2>3. [[over.session EXCEPT ![loser] = [over.session[loser] EXCEPT !.health = 1]]
           EXCEPT ![loser] = [@ EXCEPT !.alive = TRUE]] = [over.session EXCEPT ![loser] = s]
    BY <2>1
  <2> QED
    BY <2>2, <2>3
<1>17. EndDuel(w, d, winner, saved) = v
  BY <1>4, <1>16
<1> HIDE DEF s, raised
<1>7. /\ lifted \in Worlds /\ lifted.mob = over.mob /\ lifted.duels = over.duels /\ lifted.book = over.book
      /\ \A p \in Players :
            \/ lifted.session[p] = over.session[p]
            \/ p = loser /\ lifted.session[p] = s /\ w.session[p].health < 1
  <2>1. CASE w.session[loser].linked # "none" /\ w.session[loser].health < 1
    BY <1>3, <1>5, <1>6, <2>1, PutSession
  <2>2. CASE ~(w.session[loser].linked # "none" /\ w.session[loser].health < 1)
    BY <1>5, <2>2
  <2> QED
    BY <2>1, <2>2
<1> HIDE DEF lifted
<1>8. Recorded(lifted, v)
  BY <1>7, RecordSteps
<1> HIDE DEF v
<1>9. /\ v \in Worlds /\ v.session = lifted.session /\ v.mob = lifted.mob /\ v.duels = w.duels \ {d}
      /\ v.book.bouts = w.book.bouts /\ over.book = w.book
  BY <1>5, <1>7, <1>8 DEF Recorded, Gentle, Calm
<1>10. Fair(v)
  <2>1. Outcome(w, v)
    BY <1>7, <1>8, <1>9 DEF Recorded, Outcome
  <2> QED
    BY <1>1, <1>9, <2>1, EndedDuel
<1>11. \A p \in Players :
         /\ v.session[p].linked = w.session[p].linked /\ v.session[p].place = w.session[p].place
         /\ \/ v.session[p].alive = w.session[p].alive /\ v.session[p].health = w.session[p].health
            \/ v.session[p].alive = TRUE /\ v.session[p].health = 1 /\ w.session[p].health < 1
  BY <1>5, <1>6, <1>7, <1>9 DEF Gentle, Calm, Stay
<1>12. \A m \in Mobs : v.mob[m].alive = w.mob[m].alive /\ v.mob[m].health = w.mob[m].health
  BY <1>5, <1>7, <1>9 DEF Gentle, Calm
<1>13. Hale(v)
  <2>1. ASSUME NEW p \in Players, Lively(w.session[p])
        PROVE  Lively(v.session[p])
    BY <1>11, <2>1 DEF Lively
  <2>2. \A m \in Mobs : Lively(w.mob[m]) => Lively(v.mob[m])
    BY <1>12 DEF Lively
  <2> QED
    BY <1>1, <2>1, <2>2 DEF Hale
<1>14. Paid(v)
  BY <1>1, <1>7, <1>8, <1>9 DEF Paid, Recorded
<1>15. /\ Stay(w, v) /\ v.duels \subseteq w.duels
       /\ \A p \in Players :
             /\ w.session[p].alive => v.session[p].alive
             /\ w.session[p].health <= v.session[p].health
  <2>1. \A p \in Players : w.session[p].health \in Nat
    BY <1>1, HealthIsNumber
  <2> QED
    BY <1>9, <1>11, <2>1 DEF Stay
<1> QED
  BY <1>17, <1>9, <1>10, <1>13, <1>14, <1>15 DEF Good

\* A blow at a player, in a duel that is on.
LEMMA BlowAtPlayer ==
    ASSUME NEW w, Good(w), NEW p \in Players, NEW q \in Players, NEW saved \in Saves, ValidPvPDamage(w, p, q)
    PROVE  Fought(w, ApplyDamageToPlayer(w, p, q, saved))
<1> DEFINE h == w.session[q].health
           s1 == [w.session[q] EXCEPT !.health = h - 1]
           s2 == [w.session[q] EXCEPT !.health = 1, !.alive = TRUE]
           spared == [w EXCEPT !.session[q] = s2]
           chosen == CHOOSE d \in DuelForPair(w, p, q) : TRUE
           v == ApplyDamageToPlayer(w, p, q, saved)
<1>1. w \in Worlds /\ Fair(w) /\ Hale(w) /\ Paid(w)
  BY DEF Good
<1>2. PICK d \in DuelForPair(w, p, q) : d.state = "active"
  BY DEF ValidPvPDamage
<1>3. /\ p # q /\ w.session[q].alive /\ Together(w, p, q)
      /\ d \in w.duels /\ d \in Active(w) /\ p \in Both(d) /\ q \in Both(d)
      /\ d.challenger \in Players /\ d.target \in Players
  BY <1>1, <1>2, WorldFields DEF ValidPvPDamage, Standing, DuelForPair, DuelsOf, Active, Both, DuelSet
<1>4. Caused(w, q)
  <2>1. d \in DuelsOf(w, q) /\ Together(w, d.challenger, d.target)
    BY <1>2, <1>3 DEF Together, DuelForPair, DuelsOf, Both
  <2> QED
    BY <2>1, <1>2 DEF Caused
<1>5. chosen = d
  <2>1. chosen \in DuelForPair(w, p, q)
    BY <1>2
  <2>2. chosen \in w.duels /\ p \in Both(chosen)
    BY <2>1 DEF DuelForPair, DuelsOf, Both
  <2> QED
    BY <1>1, <1>3, <2>2 DEF Fair
<1>6. h \in Nat /\ h <= MaxHealth /\ w.session[q] \in SessionSet
  BY <1>1, HealthIsNumber
<1>7. CASE h > 2
  <2>1. v = [w EXCEPT !.session[q] = s1]
    BY <1>7 DEF ApplyDamageToPlayer
  <2>2. s1 \in SessionSet /\ s1.alive = w.session[q].alive /\ s1.health = h - 1
        /\ s1.linked = w.session[q].linked /\ s1.place = w.session[q].place
    <3>1. h - 1 \in 0..MaxHealth
      BY <1>6, <1>7, ConstantFacts
    <3>2. s1 \in SessionSet
      BY <1>6, <3>1, SessionUpdates
    <3> QED
      BY <1>6, <3>2 DEF SessionSet
  <2> HIDE DEF s1, v
  <2>3. /\ v \in Worlds /\ v.session[q] = s1 /\ \A r \in Players \ {q} : v.session[r] = w.session[r]
        /\ v.mob = w.mob /\ v.duels = w.duels /\ v.book = w.book
    BY <1>1, <2>1, <2>2, PutSession
  <2>4. Fair(v)
    BY <1>1, <2>3, FewerDuels
  <2>5. s1.health > 0 /\ s1.alive
    BY <2>2, <1>3, <1>6, <1>7
  <2>6. Hale(v)
    BY <1>1, <2>3, <2>5 DEF Hale, Lively
  <2>7. Paid(v)
    BY <1>1, <2>3 DEF Paid
  <2>8. Stay(w, v)
    BY <2>2, <2>3 DEF Stay
  <2>9. \A r \in Players : w.session[r].health \in Nat
    BY <1>1, HealthIsNumber
  <2>10. Fought(w, v)
    BY <1>4, <2>3, <2>4, <2>5, <2>6, <2>7, <2>8, <2>9 DEF Fought, Good
  <2> QED
    BY <2>10 DEF v
<1>8. CASE ~(h > 2)
  <2>1. v = EndDuel(spared, d, p, saved)
    BY <1>5, <1>8 DEF ApplyDamageToPlayer
  <2>2. s2 \in SessionSet /\ s2.alive = TRUE /\ s2.health = 1
        /\ s2.linked = w.session[q].linked /\ s2.place = w.session[q].place
    <3>1. 1 \in 0..MaxHealth
      BY ConstantFacts
    <3>2. s2 \in SessionSet
      BY <1>6, <3>1, SessionUpdates
    <3> QED
      BY <1>6, <3>2 DEF SessionSet
  <2> HIDE DEF s2
  <2>3. /\ spared \in Worlds /\ spared.session[q] = s2
        /\ \A r \in Players \ {q} : spared.session[r] = w.session[r]
        /\ spared.mob = w.mob /\ spared.duels = w.duels /\ spared.book = w.book
    BY <1>1, <2>2, PutSession
  <2> HIDE DEF spared, v
  <2>4. Good(spared)
    <3>1. Fair(spared)
      BY <1>1, <2>3, FewerDuels
    <3>2. Lively(s2)
      BY <2>2 DEF Lively
    <3>3. Hale(spared)
      BY <1>1, <2>3, <3>2 DEF Hale
    <3>4. Paid(spared)
      BY <1>1, <2>3 DEF Paid
    <3> QED
      BY <2>3, <3>1, <3>3, <3>4 DEF Good
  <2>5. d \in Active(spared)
    BY <1>3, <2>3 DEF Active
  <2>6. /\ Good(v) /\ Stay(spared, v) /\ v.duels \subseteq spared.duels
        /\ \A r \in Players :
              /\ spared.session[r].alive => v.session[r].alive
              /\ spared.session[r].health <= v.session[r].health
    BY <1>3, <2>1, <2>4, <2>5, EndDuelSteps
  <2>7. Stay(w, v) /\ v.duels \subseteq w.duels
    BY <2>2, <2>3, <2>6 DEF Stay
  <2>8. ASSUME NEW r \in Players
        PROVE  /\ w.session[r].alive => v.session[r].alive
               /\ v.session[r].health < w.session[r].health =>
                     Caused(w, r) /\ v.session[r].alive /\ v.session[r].health > 0
    <3>1. w.session[r].health \in Nat /\ v.session[r].health \in Nat
      BY <1>1, <2>6, HealthIsNumber DEF Good
    <3>2. CASE r = q
      <4>1. v.session[q].alive /\ v.session[q].health > 0
        BY <2>2, <2>3, <2>6, <3>1, <3>2
      <4> QED
        BY <4>1, <3>2, <1>4
    <3>3. CASE r # q
      BY <2>3, <2>6, <3>1, <3>3
    <3> QED
      BY <3>2, <3>3
  <2>9. Fought(w, v)
    BY <2>6, <2>7, <2>8 DEF Fought
  <2> QED
    BY <2>9 DEF v
<1> QED
  BY <1>7, <1>8

-----------------------------------------------------------------------------
(* Abilities. *)

LEMMA AbilityFields ==
    ASSUME NEW a \in Abilities
    PROVE  a.rule \in {"self", "enemy", "ally"} /\ a.effects \subseteq {"damage", "heal", "aura"}
BY BattleAssumption

Healed(w, q) ==
    [w EXCEPT !.session[q] = [w.session[q] EXCEPT !.health = Mended(w.session[q].health)]]

LEMMA MendFought ==
    ASSUME NEW w, Good(w), NEW q \in Players, w.session[q].alive \/ "mendsDead" \in Races
    PROVE  Fought(w, Healed(w, q))
<1> DEFINE h == w.session[q].health
           k == Mended(h)
           s == [w.session[q] EXCEPT !.health = k]
           v == [w EXCEPT !.session[q] = s]
<1>1. w \in Worlds /\ Fair(w) /\ Hale(w) /\ Paid(w)
  BY DEF Good
<1>2. Healed(w, q) = v
  BY DEF Healed
<1>3. h \in Nat /\ h <= MaxHealth /\ w.session[q] \in SessionSet
  BY <1>1, HealthIsNumber
<1>4. k \in 0..MaxHealth /\ k >= h /\ (h > 0 => k > 0)
  BY <1>3, ConstantFacts DEF Mended
<1> HIDE DEF k
<1>5. /\ s \in SessionSet /\ s.alive = w.session[q].alive /\ s.health = k
      /\ s.linked = w.session[q].linked /\ s.place = w.session[q].place
  <2>1. s \in SessionSet
    BY <1>3, <1>4, SessionUpdates
  <2> QED
    BY <1>3, <2>1 DEF SessionSet
<1> HIDE DEF s
<1>6. /\ v \in Worlds /\ v.session[q] = s /\ \A r \in Players \ {q} : v.session[r] = w.session[r]
      /\ v.mob = w.mob /\ v.duels = w.duels /\ v.book = w.book
  BY <1>1, <1>5, PutSession
<1> HIDE DEF v
<1>7. Fair(v)
  BY <1>1, <1>6, FewerDuels
<1>8. Hale(v)
  <2>1. CASE "mendsDead" \in Races
    BY <2>1 DEF Hale
  <2>2. CASE w.session[q].alive
    <3>1. Lively(w.session[q]) => Lively(s)
      BY <1>3, <1>4, <1>5, <2>2 DEF Lively
    <3> QED
      BY <1>1, <1>6, <3>1 DEF Hale
  <2> QED
    BY <2>1, <2>2
<1>9. Paid(v)
  BY <1>1, <1>6 DEF Paid
<1>10. Stay(w, v)
  BY <1>5, <1>6 DEF Stay
<1>11. \A r \in Players : ~(v.session[r].health < w.session[r].health)
  <2>1. \A r \in Players : w.session[r].health \in Nat /\ v.session[r].health \in Nat
    BY <1>1, <1>6, HealthIsNumber
  <2>2. \A r \in Players : w.session[r].health <= v.session[r].health
    BY <1>3, <1>4, <1>5, <1>6, <2>1
  <2> QED
    BY <2>1, <2>2
<1>12. \A r \in Players : w.session[r].alive => v.session[r].alive
  BY <1>5, <1>6
<1>13. Fought(w, v)
  BY <1>6, <1>7, <1>8, <1>9, <1>10, <1>11, <1>12 DEF Fought, Good
<1> QED
  BY <1>2, <1>13

LEMMA HealFought ==
    ASSUME NEW w, Good(w), NEW p \in Players, NEW x \in Targets, NEW a
    PROVE  Fought(w, Heal(w, p, x, a))
<1> DEFINE q == IF x \in Players /\ a.rule = "ally" THEN x ELSE p
<1>1. w \in Worlds /\ q \in Players
  BY DEF Good
<1>2. \/ Heal(w, p, x, a) = w
      \/ Heal(w, p, x, a) = Healed(w, q) /\ (w.session[q].alive \/ "mendsDead" \in Races)
  BY <1>1 DEF Heal, Healed, Worlds
<1>3. Fought(w, w)
  BY <1>1, GentleSelf, GentleFought
<1> HIDE DEF q
<1> QED
  BY <1>1, <1>2, <1>3, MendFought

LEMMA AuraGentle ==
    ASSUME NEW w \in Worlds, NEW p \in Players, NEW x \in Targets, NEW a
    PROVE  Gentle(w, ApplyAura(w, p, x, a))
<1> DEFINE q == IF a.rule = "self" \/ x = Nobody THEN p ELSE x
           y == IF w.session[q].aura = Nobody THEN p ELSE w.session[q].aura
           s == [w.session[q] EXCEPT !.aura = y]
           z == IF w.mob[q].aura = Nobody THEN p ELSE w.mob[q].aura
           t == [w.mob[q] EXCEPT !.aura = z]
<1>1. q \in Players \/ (q \in Mobs /\ q \notin Players)
  <2> HIDE DEF y, s, z, t
  <2>1. CASE a.rule = "self" \/ x = Nobody
    BY <2>1
  <2>2. CASE ~(a.rule = "self" \/ x = Nobody)
    <3>1. q = x /\ x \in Players \cup Mobs
      BY <2>2 DEF Targets
    <3> QED
      BY <3>1, ConstantFacts
  <2> QED
    BY <2>1, <2>2
<1>2. CASE "aura" \notin a.effects
  BY <1>2, GentleSelf DEF ApplyAura
<1>3. CASE "aura" \in a.effects /\ q \in Players
  <2>1. ApplyAura(w, p, x, a) = [w EXCEPT !.session[q] = s]
    BY <1>3 DEF ApplyAura
  <2> HIDE DEF q
  <2>2. w.session[q] \in SessionSet
    BY <1>3, WorldFields
  <2>3. y \in Players \cup {Nobody}
    BY <2>2, SessionFields
  <2> HIDE DEF y
  <2>4. s \in SessionSet
    BY <2>2, <2>3, SessionUpdates
  <2>5. /\ s.alive = w.session[q].alive /\ s.health = w.session[q].health
        /\ s.linked = w.session[q].linked /\ s.place = w.session[q].place
    BY <2>2 DEF SessionSet
  <2> HIDE DEF s
  <2> QED
    BY <1>3, <2>1, <2>4, <2>5, PutSessionGentle
<1>4. CASE "aura" \in a.effects /\ q \in Mobs /\ q \notin Players
  <2>1. ApplyAura(w, p, x, a) = [w EXCEPT !.mob[q] = t]
    BY <1>4 DEF ApplyAura
  <2> HIDE DEF q
  <2>2. w.mob[q] \in MobSet
    BY <1>4, WorldFields
  <2>3. z \in Players \cup {Nobody}
    BY <2>2, MobFields
  <2> HIDE DEF z
  <2>4. t \in MobSet
    BY <2>2, <2>3, MobUpdates
  <2>5. t.alive = w.mob[q].alive /\ t.health = w.mob[q].health
    BY <2>2 DEF MobSet
  <2> HIDE DEF t
  <2> QED
    BY <1>4, <2>1, <2>4, <2>5, PutMobGentle
<1> QED
  BY <1>1, <1>2, <1>3, <1>4

LEMMA EffectsFought ==
    ASSUME NEW w, Good(w), NEW p \in Players, NEW x \in Targets, NEW a \in Abilities,
           NEW saved \in Saves
    PROVE  Fought(w, ResolveAbilityEffects(w, p, x, a, saved))
<1> DEFINE hit == Damage(w, p, x, a, saved)
           healed == Heal(hit, p, x, a)
           cursed == ApplyAura(healed, p, x, a)
<1>1. w \in Worlds /\ Fought(w, w)
  BY GentleSelf, GentleFought DEF Good
<1>2. \/ ResolveAbilityEffects(w, p, x, a, saved) = w
      \/ /\ ~Fails(w, p, x, a)
         /\ \/ ResolveAbilityEffects(w, p, x, a, saved) = hit
            \/ ResolveAbilityEffects(w, p, x, a, saved) = cursed
  BY DEF ResolveAbilityEffects
<1>3. CASE ~Fails(w, p, x, a)
  <2>1. Fought(w, hit)
    <3>1. CASE "damage" \notin a.effects \/ x \notin Players \cup Mobs
      BY <1>1, <3>1 DEF Damage
    <3>2. CASE "damage" \in a.effects /\ x \in Mobs
      BY <3>2, MobFought, SavesAlways DEF Damage
    <3>3. CASE "damage" \in a.effects /\ x \in Players
      <4>1. x \notin Mobs
        BY <3>3, ConstantFacts
      <4>2. ValidPvPDamage(w, p, x)
        BY <1>3, <3>3 DEF Fails
      <4> QED
        BY <3>3, <4>1, <4>2, BlowAtPlayer DEF Damage
    <3> QED
      BY <3>1, <3>2, <3>3
  <2> HIDE DEF hit
  <2>2. Good(hit)
    BY <2>1 DEF Fought
  <2>3. Fought(hit, healed)
    BY <2>2, HealFought
  <2>4. Good(healed) /\ healed \in Worlds
    BY <2>3 DEF Fought, Good
  <2> HIDE DEF healed
  <2>5. Fought(healed, cursed)
    BY <2>4, AuraGentle, GentleFought
  <2> HIDE DEF cursed
  <2>6. Fought(w, cursed)
    BY <2>1, <2>2, <2>3, <2>4, <2>5, FoughtChain
  <2> QED
    BY <1>1, <1>2, <2>1, <2>6
<1> QED
  BY <1>1, <1>2, <1>3

LEMMA CastFought ==
    ASSUME NEW w, Good(w), NEW p \in Players, w.session[p].casting # NotCasting,
           NEW saved \in Saves
    PROVE  Fought(w, CompleteCast(w, p, saved))
<1> DEFINE a == w.session[p].casting.ability
           x == w.session[p].casting.target
           idle == CancelCast(w, p)
<1>1. w \in Worlds /\ w.session[p] \in SessionSet
  BY WorldFields DEF Good
<1>2. a \in Abilities /\ x \in Targets
  BY <1>1, SessionFields DEF Castings
<1>3. Fought(w, idle) /\ Good(idle)
  BY <1>1, CancelCastGentle, GentleFought, CalmKeeps DEF Gentle
<1>4. \/ CompleteCast(w, p, saved) = idle
      \/ CompleteCast(w, p, saved) = ResolveAbilityEffects(idle, p, x, a, saved)
  BY DEF CompleteCast
<1> HIDE DEF a, x, idle
<1>5. Fought(idle, ResolveAbilityEffects(idle, p, x, a, saved))
  BY <1>2, <1>3, EffectsFought
<1> QED
  BY <1>3, <1>4, <1>5, FoughtChain

-----------------------------------------------------------------------------
(* The steps of a request. *)

Phases == {"none", "auras", "sessions", "mobs", "ready"}

Sound == Good(World) /\ turn.phase \in Phases

\* The harm that v brings has a cause.
Accounted(v) ==
    "bleeds" \notin Races /\ "follows" \notin Races =>
    \A p \in Players : v.session[p].health < session[p].health /\ v.session[p].linked # "none" =>
         \/ turn.phase = "mobs" /\ On(World, p) /\ session[p].place = "field"
         \/ /\ v.session[p].health > 0 /\ v.session[p].alive
            /\ \E d \in DuelsOf(World, p) :
                  d.state = "active" /\ Together(World, d.challenger, d.target)

Explained == (vars' = vars) \/ \E v : Become(v) /\ Good(v) /\ Accounted(v)

\* What every action is shown to do.
Correct(v) == Good(v) /\ Accounted(v)

\* Who stays is not hurt.
Quiet(w, v) ==
    \A p \in Players : v.session[p].linked # "none" => w.session[p].health <= v.session[p].health

LEMMA WorldIs ==
    /\ World.session = session /\ World.mob = mob /\ World.duels = duels /\ World.book = book
BY DEF World

LEMMA QuietCorrect ==
    ASSUME Good(World), NEW v, Good(v), Quiet(World, v)
    PROVE  Correct(v)
<1>1. \A p \in Players : v.session[p].health \in Nat /\ session[p].health \in Nat
  BY HealthIsNumber, WorldIs DEF Good
<1> QED
  BY <1>1, WorldIs DEF Correct, Accounted, Quiet

LEMMA CalmQuiet ==
    ASSUME NEW w \in Worlds, NEW v, Calm(w, v)
    PROVE  Quiet(w, v)
<1>1. \A p \in Players : w.session[p].health \in Nat
  BY HealthIsNumber
<1> QED
  BY <1>1 DEF Calm, Quiet

LEMMA CalmCorrect ==
    ASSUME Good(World), NEW v, Calm(World, v)
    PROVE  Correct(v)
BY CalmKeeps, CalmQuiet, QuietCorrect DEF Good

LEMMA FoughtCorrect ==
    ASSUME Good(World), NEW v, Fought(World, v)
    PROVE  Correct(v)
<1> SUFFICES ASSUME NEW p \in Players, v.session[p].health < session[p].health
             PROVE  /\ v.session[p].health > 0 /\ v.session[p].alive
                    /\ \E d \in DuelsOf(World, p) :
                          d.state = "active" /\ Together(World, d.challenger, d.target)
  BY DEF Correct, Accounted, Fought
<1> QED
  BY WorldIs DEF Fought, Caused

LEMMA SoundNext ==
    ASSUME NEW v, Correct(v), Become(v), turn'.phase \in Phases
    PROVE  Sound' /\ Explained
<1>1. World' = v
  BY DEF World, Become, Correct, Good, Worlds
<1>2. Good(World')
  BY <1>1 DEF Correct
<1> QED
  BY <1>2 DEF Sound, Explained, Correct

LEMMA DonePhase ==
    ASSUME NEW x, NEW w, NEW failed, Done(x, w, failed), turn.phase \in {"auras", "sessions", "mobs"}
    PROVE  turn'.phase \in Phases
<1>1. \A phase : Phase(w, phase).phase \in Phases
  BY DEF Phase, Phases
<1> DEFINE todo == turn.todo \ {x}
<1>2. CASE failed
  BY <1>2 DEF Done, Phases
<1>3. CASE ~failed /\ todo # {}
  <2>1. turn' = [turn EXCEPT !.todo = todo]
    BY <1>3 DEF Done
  <2> QED
    BY <2>1 DEF Phases
<1>4. CASE ~failed /\ todo = {}
  <2>1. turn' = CASE turn.phase = "auras" -> Phase(w, "sessions")
                  [] turn.phase = "sessions" -> Phase(w, "mobs")
                  [] turn.phase = "mobs" -> [phase |-> "ready", todo |-> {}]
    BY <1>4 DEF Done
  <2>2. \/ turn' = Phase(w, "sessions") \/ turn' = Phase(w, "mobs")
        \/ turn' = [phase |-> "ready", todo |-> {}]
    BY <2>1
  <2> QED
    BY <1>1, <2>2 DEF Phases
<1> QED
  BY <1>2, <1>3, <1>4

LEMMA AnswersSound ==
    ASSUME NEW v, Correct(v), Answers(v) \/ AtOnce(v), Sound
    PROVE  Sound' /\ Explained
<1>1. Become(v) /\ turn'.phase \in Phases
  BY DEF Answers, AtOnce, Sound, Phases
<1> QED
  BY <1>1, SoundNext

LEMMA DoneSound ==
    ASSUME NEW v, Correct(v), Become(v), NEW x, NEW failed, Done(x, v, failed),
           turn.phase \in {"auras", "sessions", "mobs"}
    PROVE  Sound' /\ Explained
BY DonePhase, SoundNext

LEMMA PutSessionGood ==
    ASSUME NEW w, Good(w), NEW p \in Players, NEW s \in SessionSet,
           Lively(w.session[p]) => Lively(s)
    PROVE  LET v == [w EXCEPT !.session[p] = s]
           IN /\ Good(v) /\ v.session[p] = s /\ v.book = w.book
              /\ \A q \in Players \ {p} : v.session[q] = w.session[q]
<1> DEFINE v == [w EXCEPT !.session[p] = s]
<1>1. w \in Worlds /\ Fair(w) /\ Hale(w) /\ Paid(w)
  BY DEF Good
<1>2. /\ v \in Worlds /\ v.session[p] = s /\ \A q \in Players \ {p} : v.session[q] = w.session[q]
      /\ v.mob = w.mob /\ v.duels = w.duels /\ v.book = w.book
  BY <1>1, PutSession
<1> HIDE DEF v
<1>3. Fair(v)
  BY <1>1, <1>2, FewerDuels
<1>4. Hale(v)
  BY <1>1, <1>2 DEF Hale
<1>5. Paid(v)
  BY <1>1, <1>2 DEF Paid
<1>6. Good(v)
  BY <1>2, <1>3, <1>4, <1>5 DEF Good
<1> QED
  BY <1>2, <1>6 DEF v

\* A session that is dropped, begun, or taken up again.
LEMMA PutSessionQuiet ==
    ASSUME NEW w, Good(w), NEW p \in Players, NEW s \in SessionSet,
           Lively(w.session[p]) => Lively(s),
           s.linked = "none" \/ w.session[p].health <= s.health
    PROVE  /\ Good([w EXCEPT !.session[p] = s])
           /\ Quiet(w, [w EXCEPT !.session[p] = s])
<1> DEFINE v == [w EXCEPT !.session[p] = s]
<1>1. /\ Good(v) /\ v.session[p] = s
      /\ \A q \in Players \ {p} : v.session[q] = w.session[q]
  BY PutSessionGood
<1>2. \A q \in Players : w.session[q].health \in Nat
  BY HealthIsNumber DEF Good
<1> HIDE DEF v
<1>3. Quiet(w, v)
  BY <1>1, <1>2 DEF Quiet
<1> QED
  BY <1>1, <1>3 DEF v

LEMMA DropSessionQuiet ==
    ASSUME NEW w, Good(w), NEW p \in Players
    PROVE  Good(DropSession(w, p)) /\ Quiet(w, DropSession(w, p))
<1> DEFINE u == CancelDuels(w, DuelsOf(w, p))
<1>1. Gentle(w, u) /\ Good(u) /\ w \in Worlds
  BY CancelDuelsGentle, CalmKeeps DEF Good, Gentle
<1>2. DropSession(w, p) = [u EXCEPT !.session[p] = NoSession]
  BY DEF DropSession
<1> HIDE DEF u
<1>3. Lively(NoSession) /\ NoSession \in SessionSet /\ NoSession.linked = "none"
  BY NewRecords DEF Lively
<1>4. Good([u EXCEPT !.session[p] = NoSession]) /\ Quiet(u, [u EXCEPT !.session[p] = NoSession])
  BY <1>1, <1>3, PutSessionQuiet
<1>5. \A q \in Players : u.session[q].health = w.session[q].health
  BY <1>1 DEF Gentle, Calm
<1> DEFINE v == [u EXCEPT !.session[p] = NoSession]
<1>6. Good(v) /\ Quiet(u, v)
  BY <1>4
<1> HIDE DEF v
<1>7. Good(v) /\ Quiet(w, v)
  BY <1>5, <1>6 DEF Quiet
<1> QED
  BY <1>2, <1>7 DEF v

\* The same characters, as healthy as before.
AsWell(w, v) ==
    \A p \in Players : /\ v.session[p].linked = w.session[p].linked
                       /\ v.session[p].health = w.session[p].health

LEMMA DuelAdvances ==
    ASSUME NEW w, Good(w), NEW d \in w.duels, NEW v \in AdvanceDuel(w, d)
    PROVE  Good(v) /\ AsWell(w, v)
<1> DEFINE e == [d EXCEPT !.state = "active"]
           u == [w EXCEPT !.duels = (w.duels \ {d}) \cup {e}, !.book.bouts = w.book.bouts + 1]
<1>1. w \in Worlds /\ Fair(w) /\ Hale(w) /\ Paid(w)
  BY DEF Good
<1>2. v = CancelDuels(w, {d}) \/ v = w \/ v = u
  BY DEF AdvanceDuel
<1>3. CASE v = CancelDuels(w, {d})
  <2>1. Gentle(w, v)
    BY <1>1, <1>3, CancelDuelsGentle
  <2> QED
    BY <2>1, CalmKeeps DEF Gentle, Calm, Stay, AsWell
<1>4. CASE v = w
  BY <1>4 DEF AsWell
<1>5. CASE v = u
  <2>1. d \in DuelSet
    BY <1>1, WorldFields
  <2>2. /\ e \in DuelSet /\ e.challenger = d.challenger /\ e.target = d.target
    BY <2>1 DEF DuelSet
  <2>3. Both(e) = Both(d) /\ e.challenger # e.target
    BY <1>1, <2>2 DEF Both, Fair
  <2> HIDE DEF e
  <2> DEFINE b == [w.book EXCEPT !.bouts = w.book.bouts + 1]
  <2>4. /\ b \in BookSet /\ b.bouts = w.book.bouts + 1 /\ b.won = w.book.won /\ b.lost = w.book.lost
        /\ b.credit = w.book.credit /\ b.stored = w.book.stored /\ b.loot = w.book.loot
        /\ b.killed = w.book.killed
    <3>1. w.book \in BookSet /\ w.book.bouts + 1 \in Nat
      BY <1>1, BookFields
    <3> QED
      BY <3>1 DEF BookSet
  <2>5. u = [w EXCEPT !.duels = (w.duels \ {d}) \cup {e}, !.book = b]
    OBVIOUS
  <2> HIDE DEF b, u
  <2>6. /\ u \in Worlds /\ u.session = w.session /\ u.mob = w.mob /\ u.book = b
        /\ u.duels = (w.duels \ {d}) \cup {e}
    <3>1. (w.duels \ {d}) \cup {e} \in SUBSET DuelSet
      BY <1>1, <2>2, WorldFields
    <3> QED
      BY <1>1, <2>4, <2>5, <3>1 DEF Worlds
  <2>7. Fair(u)
    BY <1>1, <2>2, <2>3, <2>4, <2>6, ChangedDuel
  <2>8. Hale(u) /\ Paid(u)
    BY <1>1, <2>4, <2>6 DEF Hale, Paid
  <2>9. AsWell(w, u)
    BY <2>6 DEF AsWell
  <2> QED
    BY <1>5, <2>6, <2>7, <2>8, <2>9 DEF Good
<1> QED
  BY <1>2, <1>3, <1>4, <1>5

LEMMA PhaseIsPhase == \A w, phase : Phase(w, phase).phase \in Phases
BY DEF Phase, Phases

LEMMA AdvanceDuelsSound ==
    ASSUME Sound, AdvanceDuels
    PROVE  Sound' /\ Explained
<1> DEFINE W(gone) == IF gone = {} THEN World ELSE DropSession(World, CHOOSE p \in gone : TRUE)
<1>1. PICK gone \in {{}} \cup {{p} : p \in Linked(World)} :
        \E d \in W(gone).duels \cup {Nobody} :
           /\ d = Nobody => W(gone).duels = {}
           /\ \E next \in IF d = Nobody THEN {W(gone)} ELSE AdvanceDuel(W(gone), d) :
                 /\ Become(next)
                 /\ turn' \in {Phase(next, "auras"), [phase |-> "ready", todo |-> {}]}
  BY DEF AdvanceDuels
<1> DEFINE w == W(gone)
<1>2. Good(w) /\ Quiet(World, w)
  <2>1. CASE gone = {}
    <3>1. \A p \in Players : World.session[p].health \in Nat
      BY HealthIsNumber DEF Sound, Good
    <3> QED
      BY <2>1, <3>1 DEF Sound, Quiet
  <2>2. CASE gone # {}
    <3>1. (CHOOSE p \in gone : TRUE) \in Players
      BY <2>2, <1>1 DEF Linked
    <3> DEFINE q == CHOOSE p \in gone : TRUE
    <3>2. w = DropSession(World, q)
      BY <2>2
    <3>3. q \in Players
      BY <3>1
    <3> HIDE DEF q, W
    <3> QED
      BY <3>2, <3>3, DropSessionQuiet DEF Sound
  <2> QED
    BY <2>1, <2>2
<1> DEFINE N(d) == IF d = Nobody THEN {w} ELSE AdvanceDuel(w, d)
<1>8. PICK d \in w.duels \cup {Nobody} : \E next \in N(d) :
         /\ Become(next)
         /\ turn' \in {Phase(next, "auras"), [phase |-> "ready", todo |-> {}]}
  BY <1>1
<1>3. PICK next \in N(d) :
         /\ Become(next)
         /\ turn' \in {Phase(next, "auras"), [phase |-> "ready", todo |-> {}]}
  BY <1>8
<1> HIDE DEF W
<1>4. Good(next) /\ AsWell(w, next)
  <2>1. CASE d = Nobody
    BY <1>2, <1>3, <2>1 DEF AsWell
  <2>2. CASE d # Nobody
    BY <1>2, <1>3, <2>2, DuelAdvances
  <2> QED
    BY <2>1, <2>2
<1>5. Quiet(World, next)
  BY <1>2, <1>4 DEF Quiet, AsWell
<1>6. Correct(next)
  BY <1>4, <1>5, QuietCorrect DEF Sound
<1>7. turn'.phase \in Phases
  BY <1>3, PhaseIsPhase DEF Phases
<1> QED
  BY <1>3, <1>6, <1>7, SoundNext

LEMMA WithoutAuraGentle ==
    ASSUME NEW w \in Worlds, NEW x \in Players \cup Mobs
    PROVE  Gentle(w, WithoutAura(w, x))
<1> DEFINE s == [w.session[x] EXCEPT !.aura = Nobody]
           t == [w.mob[x] EXCEPT !.aura = Nobody]
<1>1. CASE x \in Mobs
  <2>1. WithoutAura(w, x) = [w EXCEPT !.mob[x] = t]
    BY <1>1 DEF WithoutAura
  <2>2. w.mob[x] \in MobSet
    BY <1>1, WorldFields
  <2>3. t \in MobSet /\ t.alive = w.mob[x].alive /\ t.health = w.mob[x].health
    BY <2>2 DEF MobSet
  <2> HIDE DEF t
  <2> QED
    BY <1>1, <2>1, <2>3, PutMobGentle
<1>2. CASE x \notin Mobs
  <2>1. WithoutAura(w, x) = [w EXCEPT !.session[x] = s] /\ x \in Players
    BY <1>2 DEF WithoutAura
  <2>2. w.session[x] \in SessionSet
    BY <2>1, WorldFields
  <2>3. /\ s \in SessionSet /\ s.alive = w.session[x].alive /\ s.health = w.session[x].health
        /\ s.linked = w.session[x].linked /\ s.place = w.session[x].place
    <3>1. s \in SessionSet
      BY <2>2, SessionUpdates
    <3> QED
      BY <2>2, <3>1 DEF SessionSet
  <2> HIDE DEF s
  <2> QED
    BY <2>1, <2>3, PutSessionGentle
<1> QED
  BY <1>1, <1>2

LEMMA AuraQuietSound ==
    ASSUME Sound, NEW x \in Players \cup Mobs, AuraQuiet(x)
    PROVE  Sound' /\ Explained
<1>1. PICK w : (w = WithoutAura(World, x) \/ w = World) /\ Become(w) /\ Done(x, w, FALSE)
  BY DEF AuraQuiet
<1>2. World \in Worlds
  BY DEF Sound, Good
<1>3. Calm(World, w)
  BY <1>1, <1>2, WithoutAuraGentle, GentleSelf DEF Gentle
<1>4. Correct(w)
  BY <1>3, CalmCorrect DEF Sound
<1> QED
  BY <1>1, <1>4, DoneSound DEF AuraQuiet

LEMMA AuraTickOnMobSound ==
    ASSUME Sound, NEW m \in Mobs, AuraTickOnMob(m)
    PROVE  Sound' /\ Explained
<1> DEFINE p == mob[m].aura
<1>1. World \in Worlds /\ Good(World) /\ World.mob = mob
  BY WorldIs DEF Sound, Good
<1>2. p \in Players
  <2>1. mob[m] \in MobSet
    BY <1>1, WorldFields
  <2> QED
    BY <2>1, MobFields DEF AuraTickOnMob
<1>3. PICK saved \in Saves :
        LET w == ApplyDamageToMob(World, p, m, saved > 0)
            failed == Errs(World, m, saved)
        IN /\ Become(IF failed THEN w ELSE [w EXCEPT !.mob[m].aura = p])
           /\ Done(m, w, failed)
  BY DEF AuraTickOnMob
<1> DEFINE w == ApplyDamageToMob(World, p, m, saved > 0)
           failed == Errs(World, m, saved)
           t == [w.mob[m] EXCEPT !.aura = p]
           v == IF failed THEN w ELSE [w EXCEPT !.mob[m] = t]
<1>4. Become(v) /\ Done(m, w, failed)
  BY <1>3
<1> HIDE DEF p, failed
<1>5. Fought(World, w)
  BY <1>1, <1>2, MobFought, SavesAlways
<1> HIDE DEF w
<1>6. w \in Worlds /\ Good(w) /\ Fought(w, w)
  BY <1>5, GentleSelf, GentleFought DEF Fought, Good
<1>7. Fought(w, v)
  <2>1. w.mob[m] \in MobSet
    BY <1>6, WorldFields
  <2>2. t \in MobSet /\ t.alive = w.mob[m].alive /\ t.health = w.mob[m].health
    BY <1>2, <2>1 DEF MobSet
  <2> HIDE DEF t
  <2>3. Gentle(w, [w EXCEPT !.mob[m] = t])
    BY <1>6, <2>2, PutMobGentle
  <2> QED
    BY <1>6, <2>3, GentleFought
<1> HIDE DEF v
<1>8. Correct(v)
  BY <1>1, <1>5, <1>7, FoughtChain, FoughtCorrect
<1>9. turn'.phase \in Phases
  BY <1>4, DonePhase DEF AuraTickOnMob
<1> QED
  BY <1>4, <1>8, <1>9, SoundNext

LEMMA PairCaused ==
    ASSUME NEW w \in Worlds, NEW p, NEW q \in Players, ValidPvPDamage(w, p, q)
    PROVE  Caused(w, q)
<1>1. PICK d \in DuelForPair(w, p, q) : d.state = "active"
  BY DEF ValidPvPDamage
<1>2. d \in DuelsOf(w, q) /\ Together(w, d.challenger, d.target)
  BY <1>1 DEF ValidPvPDamage, Together, DuelForPair, DuelsOf
<1> QED
  BY <1>1, <1>2 DEF Caused

\* An aura that harms does it in a duel that is on and leaves some health.
LEMMA HarmfulTick ==
    ASSUME Sound, NEW p \in Players,
           \/ "bleeds" \in Races
           \/ session[p].health > 1 /\ ValidPvPDamage(World, session[p].aura, p)
    PROVE  Correct([World EXCEPT !.session[p].health = IF session[p].health > 0 THEN session[p].health - 1 ELSE 0])
<1> DEFINE h == World.session[p].health
           k == IF h > 0 THEN h - 1 ELSE 0
           s == [World.session[p] EXCEPT !.health = k]
           v == [World EXCEPT !.session[p] = s]
<1>1. World \in Worlds /\ Fair(World) /\ Hale(World) /\ Paid(World)
  BY DEF Sound, Good
<1>2. h \in Nat /\ h <= MaxHealth /\ World.session[p] \in SessionSet
  BY <1>1, HealthIsNumber
<1>3. [World EXCEPT !.session[p].health = IF session[p].health > 0 THEN session[p].health - 1 ELSE 0] = v
  BY DEF World
<1>5. k \in 0..MaxHealth
  BY <1>2, ConstantFacts
<1>6. "bleeds" \notin Races => h > 1 /\ World.session[p].alive /\ ValidPvPDamage(World, session[p].aura, p)
  BY WorldIs DEF ValidPvPDamage, Standing
<1>7. "bleeds" \notin Races => k > 0
  BY <1>2, <1>6
<1> HIDE DEF k
<1>8. /\ s \in SessionSet /\ s.alive = World.session[p].alive /\ s.health = k
      /\ s.linked = World.session[p].linked /\ s.place = World.session[p].place
  <2>1. s \in SessionSet
    BY <1>2, <1>5, SessionUpdates
  <2> QED
    BY <1>2, <2>1 DEF SessionSet
<1> HIDE DEF s
<1>9. /\ v \in Worlds /\ v.session[p] = s /\ \A r \in Players \ {p} : v.session[r] = World.session[r]
      /\ v.mob = World.mob /\ v.duels = World.duels /\ v.book = World.book
  BY <1>1, <1>8, PutSession
<1> HIDE DEF v
<1>10. Good(v)
  <2>1. Fair(v)
    BY <1>1, <1>9, FewerDuels
  <2>2. Hale(v)
    <3>1. "bleeds" \notin Races => Lively(s)
      BY <1>6, <1>7, <1>8 DEF Lively
    <3> QED
      BY <1>1, <1>9, <3>1 DEF Hale
  <2>3. Paid(v)
    BY <1>1, <1>9 DEF Paid
  <2> QED
    BY <1>9, <2>1, <2>2, <2>3 DEF Good
<1>11. Accounted(v)
  <2> SUFFICES ASSUME "bleeds" \notin Races, NEW q \in Players, v.session[q].health < session[q].health
               PROVE  /\ v.session[q].health > 0 /\ v.session[q].alive
                      /\ \E d \in DuelsOf(World, q) :
                            d.state = "active" /\ Together(World, d.challenger, d.target)
    BY DEF Accounted
  <2>1. q = p
    <3>1. session[q].health \in Nat
      BY <1>1, HealthIsNumber, WorldIs
    <3> QED
      BY <3>1, <1>9, WorldIs
  <2>2. Caused(World, p)
    BY <1>1, <1>6, PairCaused
  <2> QED
    BY <2>1, <2>2, <1>6, <1>7, <1>8, <1>9 DEF Caused
<1> QED
  BY <1>3, <1>10, <1>11 DEF Correct

LEMMA AuraTickOnPlayerSound ==
    ASSUME Sound, NEW p \in Players, AuraTickOnPlayer(p)
    PROVE  Sound' /\ Explained
<1> DEFINE h == session[p].health
           After(left) == [World EXCEPT !.session[p].health = left]
<1>1. PICK left :
        /\ \/ /\ "bleeds" \in Races \/ (h > 1 /\ ValidPvPDamage(World, session[p].aura, p))
              /\ left = IF h > 0 THEN h - 1 ELSE 0
           \/ (session[p].alive \/ "mendsDead" \in Races) /\ left = Mended(h)
        /\ Become(After(left)) /\ Done(p, After(left), FALSE)
  BY DEF AuraTickOnPlayer
<1>2. CASE /\ "bleeds" \in Races \/ (h > 1 /\ ValidPvPDamage(World, session[p].aura, p))
           /\ left = IF h > 0 THEN h - 1 ELSE 0
  <2>1. Correct(After(left))
    BY <1>2, HarmfulTick
  <2> QED
    BY <1>1, <2>1, DoneSound DEF AuraTickOnPlayer
<1>3. CASE (session[p].alive \/ "mendsDead" \in Races) /\ left = Mended(h)
  <2>1. Good(World) /\ World.session = session
    BY WorldIs DEF Sound
  <2>2. After(left) = Healed(World, p)
    BY <1>3, <2>1 DEF Healed, World
  <2>3. Fought(World, After(left))
    BY <1>3, <2>1, <2>2, MendFought
  <2>4. Correct(After(left))
    BY <2>1, <2>3, FoughtCorrect
  <2> QED
    BY <1>1, <2>4, DoneSound DEF AuraTickOnPlayer
<1> QED
  BY <1>1, <1>2, <1>3

LEMMA AutoAttackFought ==
    ASSUME NEW w, Good(w), NEW p \in Players, NEW o \in AutoAttackOutcomes(w, p)
    PROVE  Fought(w, o[1])
<1> DEFINE x == w.session[p].target
           found == FoundMob(w, p, x) \/ FoundPlayer(w, p, x)
<1>1. w \in Worlds /\ Fought(w, w)
  BY GentleSelf, GentleFought DEF Good
<1>2. Fought(w, StopAutoAttack(w, p)) /\ Fought(w, ClearTarget(w, {p}))
  BY <1>1, StopAutoAttackGentle, ClearTargetGentle, GentleFought
<1>3. \/ o[1] = w \/ o[1] = StopAutoAttack(w, p) \/ o[1] = ClearTarget(w, {p})
      \/ found /\ ~(x \in Players /\ ~ValidPvPDamage(w, p, x)) /\ o \in Swings(w, p, x)
  <2> DEFINE wrong == x \in Players /\ ~ValidPvPDamage(w, p, x)
             idle == ~w.session[p].auto \/ ~w.session[p].alive
             gone == x \in Mobs /\ ~Hittable(w, x)
             rest == {<<StopAutoAttack(w, p), FALSE>>, <<w, FALSE>>} \cup Swings(w, p, x)
  <2>1. o \in IF idle THEN {<<w, FALSE>>}
             ELSE IF ~found THEN {<<StopAutoAttack(w, p), FALSE>>}
             ELSE IF gone THEN {<<ClearTarget(w, {p}), FALSE>>}
             ELSE IF wrong THEN {<<StopAutoAttack(w, p), FALSE>>}
             ELSE rest
    BY DEF AutoAttackOutcomes
  <2> HIDE DEF idle, gone, found, wrong, rest
  <2>2. \/ o = <<w, FALSE>> \/ o = <<StopAutoAttack(w, p), FALSE>> \/ o = <<ClearTarget(w, {p}), FALSE>>
        \/ found /\ ~wrong /\ o \in rest
    BY <2>1
  <2>3. o \in rest => \/ o = <<w, FALSE>> \/ o = <<StopAutoAttack(w, p), FALSE>> \/ o \in Swings(w, p, x)
    BY DEF rest
  <2>4. \A u : o = <<u, FALSE>> => o[1] = u
    OBVIOUS
  <2>5. \/ o[1] = w \/ o[1] = StopAutoAttack(w, p) \/ o[1] = ClearTarget(w, {p})
        \/ found /\ ~wrong /\ o \in Swings(w, p, x)
    BY <2>2, <2>3, <2>4, Zenon
  <2> QED
    BY <2>5 DEF wrong
<1>4. CASE found /\ ~(x \in Players /\ ~ValidPvPDamage(w, p, x)) /\ o \in Swings(w, p, x)
  <2>1. CASE x \in Mobs
    <3>1. PICK saved \in Saves : o[1] = ApplyDamageToMob(w, p, x, saved > 0)
      BY <1>4, <2>1 DEF Swings
    <3> HIDE DEF x
    <3> QED
      BY <2>1, <3>1, MobFought, SavesAlways
  <2>2. CASE x \notin Mobs
    <3>1. PICK saved \in Saves : o[1] = ApplyDamageToPlayer(w, p, x, saved)
      BY <1>4, <2>2 DEF Swings
    <3>2. x \in Players /\ ValidPvPDamage(w, p, x)
      BY <1>4, <2>2 DEF FoundMob, FoundPlayer
    <3> HIDE DEF x
    <3> QED
      BY <3>1, <3>2, BlowAtPlayer
  <2> QED
    BY <2>1, <2>2
<1> QED
  BY <1>1, <1>2, <1>3, <1>4

LEMMA AdvanceSessionSound ==
    ASSUME Sound, NEW p \in Players, AdvanceSession(p)
    PROVE  Sound' /\ Explained
<1>1. PICK w \in CastOutcomes(p) : \E o \in AutoAttackOutcomes(w, p) : Become(o[1]) /\ Done(p, o[1], o[2])
  BY DEF AdvanceSession
<1>2. PICK o \in AutoAttackOutcomes(w, p) : Become(o[1]) /\ Done(p, o[1], o[2])
  BY <1>1
<1>3. Good(World) /\ Fought(World, World)
  BY GentleSelf, GentleFought DEF Sound, Good
<1>4. Fought(World, w)
  <2>1. CASE w = World
    BY <1>3, <2>1
  <2>2. CASE w # World
    <3>1. PICK saved \in Saves : w = CompleteCast(World, p, saved)
      BY <1>1, <2>2 DEF CastOutcomes
    <3>2. World.session[p].casting # NotCasting
      BY <1>1, <2>2, WorldIs DEF CastOutcomes
    <3> QED
      BY <1>3, <3>1, <3>2, CastFought
  <2> QED
    BY <2>1, <2>2
<1>5. Fought(w, o[1])
  <2>1. Good(w)
    BY <1>4 DEF Fought
  <2> QED
    BY <1>2, <2>1, AutoAttackFought
<1>6. Correct(o[1])
  BY <1>3, <1>4, <1>5, FoughtChain, FoughtCorrect
<1> QED
  BY <1>2, <1>6, DoneSound DEF AdvanceSession

-----------------------------------------------------------------------------
(* Mobs. *)

\* Whom a mob is after; nobody is any the worse for it yet.
Turned(w, v, m, p) ==
    Gentle(w, v) /\ v.session = w.session /\ v.mob[m].target = p

LEMMA WithTargetSteps ==
    ASSUME NEW w \in Worlds, NEW m \in Mobs, NEW p \in Players \cup {Nobody}
    PROVE  Turned(w, WithTarget(w, m, p), m, p)
<1> DEFINE t == w.mob[m]
           ai == IF p # Nobody /\ t.ai = "idle" THEN "roused" ELSE t.ai
           s == [t EXCEPT !.target = p, !.ai = ai]
           v == [w EXCEPT !.mob[m] = s]
<1>1. t \in MobSet
  BY WorldFields
<1>2. ai \in {"idle", "roused", "evading", "returning", "dead"}
  BY <1>1, MobFields
<1>3. WithTarget(w, m, p) = v
  BY DEF WithTarget, Worlds
<1> HIDE DEF ai
<1>4. s \in MobSet /\ s.alive = t.alive /\ s.health = t.health /\ s.target = p
  BY <1>1, <1>2 DEF MobSet
<1> HIDE DEF s
<1>5. Gentle(w, v)
  BY <1>4, PutMobGentle
<1>6. v.mob[m] = s /\ v.session = w.session
  BY <1>4, PutMob
<1> HIDE DEF v
<1> QED
  BY <1>3, <1>4, <1>5, <1>6 DEF Turned

LEMMA ForgetSteps ==
    ASSUME NEW w \in Worlds, NEW m \in Mobs, NEW q
    PROVE  Turned(w, [w EXCEPT !.mob[m].threat = @ \ {q}], m, w.mob[m].target)
<1> DEFINE t == w.mob[m]
           s == [t EXCEPT !.threat = t.threat \ {q}]
           v == [w EXCEPT !.mob[m] = s]
<1>1. t \in MobSet /\ t.threat \ {q} \in SUBSET Players
  BY WorldFields, MobFields
<1>2. [w EXCEPT !.mob[m].threat = @ \ {q}] = v
  BY DEF Worlds
<1>3. s \in MobSet
  BY <1>1, MobUpdates
<1>4. s.alive = t.alive /\ s.health = t.health /\ s.target = t.target
  BY <1>1 DEF MobSet
<1> HIDE DEF s
<1>5. Gentle(w, v)
  BY <1>3, <1>4, PutMobGentle
<1>6. v.mob[m] = s /\ v.session = w.session
  BY <1>3, PutMob
<1> HIDE DEF v
<1>7. Turned(w, v, m, w.mob[m].target)
  BY <1>4, <1>5, <1>6 DEF Turned
<1> QED
  BY <1>2, <1>7

LEMMA ResolveSteps ==
    ASSUME NEW w \in Worlds, NEW m \in Mobs, NEW v \in ResolveMobTarget(w, m)
    PROVE  /\ Gentle(w, v)
           /\ v.mob[m].targetable /\ v.mob[m].target # Nobody =>
                 v.mob[m].target \in Players /\ Standing(v, v.mob[m].target)
<1> DEFINE present == w.mob[m].target
           threat == w.mob[m].threat
           near == {WithTarget(w, m, p) : p \in Prey(w) \cup {Nobody}}
           Forgotten(p) == {[u EXCEPT !.mob[m].threat = @ \ {p}] : u \in near}
<1>1. present \in Players \cup {Nobody} /\ threat \subseteq Players
  <2>1. w.mob[m] \in MobSet
    BY WorldFields
  <2> QED
    BY <2>1, MobFields
<1>2. \/ v = w /\ (~w.mob[m].targetable \/ (present # Nobody /\ Standing(w, present)))
      \/ v \in near
      \/ \E p \in threat : v \in IF p \in Prey(w) THEN {WithTarget(w, m, p)} ELSE Forgotten(p)
  <2> HIDE DEF present, threat, near, Forgotten
  <2>1. v \in IF ~w.mob[m].targetable THEN {w}
              ELSE IF present # Nobody /\ Standing(w, present) THEN {w}
              ELSE IF threat = {} THEN near
              ELSE UNION {IF p \in Prey(w) THEN {WithTarget(w, m, p)} ELSE Forgotten(p) : p \in threat}
    BY DEF ResolveMobTarget, present, threat, near, Forgotten
  <2> QED
    BY <2>1
<1>3. \A p \in Prey(w) : p \in Players /\ Standing(w, p)
  BY DEF Prey
<1>4. ASSUME NEW u \in near
      PROVE  \E p \in Prey(w) \cup {Nobody} : Turned(w, u, m, p)
  <2>1. PICK p \in Prey(w) \cup {Nobody} : u = WithTarget(w, m, p)
    BY <1>4
  <2>2. p \in Players \cup {Nobody}
    BY <1>3
  <2> HIDE DEF near
  <2>3. Turned(w, u, m, p)
    BY <2>1, <2>2, WithTargetSteps
  <2> QED
    BY <2>3
<1>5. CASE v = w /\ (~w.mob[m].targetable \/ (present # Nobody /\ Standing(w, present)))
  BY <1>1, <1>5, GentleSelf
<1>6. CASE \E p \in Prey(w) \cup {Nobody} : Turned(w, v, m, p)
  BY <1>3, <1>6 DEF Turned, Standing, On
<1>7. CASE \E p \in threat : v \in IF p \in Prey(w) THEN {WithTarget(w, m, p)} ELSE Forgotten(p)
  <2>1. PICK q \in threat : v \in IF q \in Prey(w) THEN {WithTarget(w, m, q)} ELSE Forgotten(q)
    BY <1>7
  <2>2. CASE q \in Prey(w)
    <3>1. v \in near
      BY <2>1, <2>2
    <3> HIDE DEF near
    <3> QED
      BY <3>1, <1>4, <1>6
  <2>3. CASE q \notin Prey(w)
    <3>1. PICK u \in near : v = [u EXCEPT !.mob[m].threat = @ \ {q}]
      BY <2>1, <2>3
    <3> HIDE DEF near, Forgotten
    <3>2. PICK p \in Prey(w) \cup {Nobody} : Turned(w, u, m, p)
      BY <1>4
    <3>3. u \in Worlds
      BY <3>2 DEF Turned, Gentle, Calm
    <3>4. Turned(u, v, m, u.mob[m].target)
      BY <3>1, <3>3, ForgetSteps
    <3>5. Turned(w, v, m, p)
      BY <3>2, <3>4, GentleChain DEF Turned
    <3> QED
      BY <3>5, <1>6
  <2> QED
    BY <2>2, <2>3
<1> HIDE DEF near, Forgotten, present, threat
<1> QED
  BY <1>2, <1>4, <1>5, <1>6, <1>7

LEMMA PutMobQuiet ==
    ASSUME NEW w, Good(w), NEW m \in Mobs, NEW s \in MobSet, Lively(w.mob[m]) => Lively(s)
    PROVE  Good(Struck(w, m, s)) /\ Struck(w, m, s).session = w.session
<1> DEFINE v == Struck(w, m, s)
<1>1. w \in Worlds /\ Fair(w) /\ Hale(w) /\ Paid(w)
  BY DEF Good
<1>2. /\ v \in Worlds /\ v.mob[m] = s /\ \A n \in Mobs \ {m} : v.mob[n] = w.mob[n]
      /\ v.session = w.session /\ v.duels = w.duels /\ v.book = w.book
  BY <1>1, PutMob DEF Struck
<1> HIDE DEF v
<1>3. Fair(v)
  BY <1>1, <1>2, FewerDuels
<1>4. Hale(v) /\ Paid(v)
  BY <1>1, <1>2 DEF Hale, Paid
<1>5. Good(v)
  BY <1>2, <1>3, <1>4 DEF Good
<1> QED
  BY <1>2, <1>5 DEF v

LEMMA SameSessionsQuiet ==
    ASSUME NEW w, Good(w), NEW v, \A p \in Players : v.session[p].health = w.session[p].health
    PROVE  Quiet(w, v)
<1>1. \A p \in Players : w.session[p].health \in Nat
  BY HealthIsNumber DEF Good
<1> QED
  BY <1>1 DEF Quiet

LEMMA MobRespawnSound ==
    ASSUME Sound, NEW m \in Mobs, MobRespawn(m)
    PROVE  Sound' /\ Explained
<1> DEFINE s == [NewMob EXCEPT !.aura = World.mob[m].aura]
<1>1. World \in Worlds /\ Good(World)
  BY DEF Sound, Good
<1>2. PICK w : (w = World \/ w = Respawn(World, m)) /\ Become(w) /\ Done(m, w, FALSE)
  BY DEF MobRespawn
<1>3. s \in MobSet /\ Lively(s)
  <2>1. World.mob[m] \in MobSet
    BY <1>1, WorldFields
  <2>2. s \in MobSet /\ s.alive = NewMob.alive /\ s.health = NewMob.health
    BY <2>1, NewRecords, MobFields DEF MobSet
  <2> QED
    BY <2>2, NewRecords, ConstantFacts DEF Lively
<1>4. Respawn(World, m) = Struck(World, m, s)
  BY DEF Respawn, Struck
<1> HIDE DEF s
<1>5. Good(Respawn(World, m)) /\ Respawn(World, m).session = World.session
  BY <1>1, <1>3, <1>4, PutMobQuiet
<1>6. Good(w) /\ Quiet(World, w)
  BY <1>1, <1>2, <1>5, SameSessionsQuiet
<1>7. Correct(w)
  BY <1>1, <1>6, QuietCorrect
<1> QED
  BY <1>2, <1>7, DoneSound DEF MobRespawn

LEMMA MobIdlesSound ==
    ASSUME Sound, NEW m \in Mobs, MobIdles(m)
    PROVE  Sound' /\ Explained
<1> DEFINE B(w) == [w EXCEPT !.mob[m].ai = "returning"]
           H(w) == [w EXCEPT !.mob[m].ai = "idle", !.mob[m].health = MobHealth, !.mob[m].targetable = TRUE]
           I(w) == [w EXCEPT !.mob[m].ai = "idle"]
<1>1. PICK w \in ResolveMobTarget(World, m) :
        \E v : (v = B(w) \/ v = H(w) \/ v = I(w)) /\ Become(v) /\ Done(m, v, FALSE)
  <2>1. PICK w \in ResolveMobTarget(World, m) :
          \E v \in IF w.mob[m].ai \in {"evading", "returning"} THEN {B(w), H(w)} ELSE {I(w)} :
             Become(v) /\ Done(m, v, FALSE)
    BY DEF MobIdles
  <2> HIDE DEF B, H, I
  <2> QED
    BY <2>1
<1>2. PICK v : (v = B(w) \/ v = H(w) \/ v = I(w)) /\ Become(v) /\ Done(m, v, FALSE)
  BY <1>1
<1> DEFINE t == w.mob[m]
           s1 == [t EXCEPT !.ai = "returning"]
           s2 == [t EXCEPT !.ai = "idle"]
           s3 == [t EXCEPT !.ai = "idle", !.health = MobHealth, !.targetable = TRUE]
<1>3. World \in Worlds /\ Good(World) /\ World.mob = mob
  BY WorldIs DEF Sound, Good
<1>4. Gentle(World, w) /\ Good(w) /\ w \in Worlds
  BY <1>3, ResolveSteps, CalmKeeps DEF Gentle, Calm
<1>5. t \in MobSet /\ t.alive = TRUE
  BY <1>3, <1>4, WorldFields, MobFields DEF MobIdles, Gentle, Calm
<1>6. B(w) = Struck(w, m, s1) /\ I(w) = Struck(w, m, s2)
  BY DEF Struck
<1>7. H(w) = Struck(w, m, s3)
  BY <1>4, <1>5 DEF Struck, Worlds
<1>8. s1 \in MobSet /\ s1.alive = t.alive /\ s1.health = t.health
  BY <1>5 DEF MobSet
<1>9. s2 \in MobSet /\ s2.alive = t.alive /\ s2.health = t.health
  BY <1>5 DEF MobSet
<1>10. s3 \in MobSet /\ s3.alive = t.alive /\ s3.health = MobHealth
  <2> DEFINE y == [s2 EXCEPT !.health = MobHealth]
             z == [y EXCEPT !.targetable = TRUE]
  <2>1. s3 = z
    OBVIOUS
  <2> HIDE DEF s2, s3
  <2>2. MobHealth \in 0..MobHealth
    BY ConstantFacts
  <2>3. y \in MobSet /\ y.alive = t.alive /\ y.health = MobHealth
    BY <1>9, <2>2 DEF MobSet
  <2> HIDE DEF y
  <2>4. z \in MobSet /\ z.alive = t.alive /\ z.health = MobHealth
    BY <2>3 DEF MobSet
  <2> QED
    BY <2>1, <2>4
<1>11. /\ Lively(t) => Lively(s1)
       /\ Lively(t) => Lively(s2)
       /\ Lively(t) => Lively(s3)
  BY <1>5, <1>8, <1>9, <1>10, ConstantFacts DEF Lively
<1> HIDE DEF B, H, I, s1, s2, s3
<1>12. Good(v) /\ v.session = w.session
  <2>1. PICK s \in MobSet : v = Struck(w, m, s) /\ (Lively(w.mob[m]) => Lively(s))
    BY <1>2, <1>6, <1>7, <1>8, <1>9, <1>10, <1>11
  <2> QED
    BY <1>4, <2>1, PutMobQuiet
<1>13. Quiet(World, v)
  <2>1. \A p \in Players : v.session[p].health = World.session[p].health
    BY <1>4, <1>12 DEF Gentle, Calm
  <2> QED
    BY <1>3, <2>1, SameSessionsQuiet
<1>14. Correct(v)
  BY <1>3, <1>12, <1>13, QuietCorrect
<1> QED
  BY <1>2, <1>14, DoneSound DEF MobIdles

LEMMA EvadeGentle ==
    ASSUME NEW w \in Worlds, NEW m \in Mobs
    PROVE  Gentle(w, EnterEvade(w, m))
<1> DEFINE t == w.mob[m]
           s == [t EXCEPT !.targetable = FALSE, !.ai = "evading", !.target = Nobody, !.threat = {}]
           u == [w EXCEPT !.mob[m] = s]
           P == {p \in Players : u.session[p].target = m}
<1>1. t \in MobSet
  BY WorldFields
<1>2. s \in MobSet /\ s.alive = t.alive /\ s.health = t.health
  BY <1>1 DEF MobSet
<1>3. [w EXCEPT !.mob[m].targetable = FALSE, !.mob[m].ai = "evading",
                !.mob[m].target = Nobody, !.mob[m].threat = {}] = u
  BY DEF Worlds
<1>4. EnterEvade(w, m) = ClearTarget(u, P)
  BY <1>3 DEF EnterEvade, ClearMobTargetFromAllSessions
<1> HIDE DEF s
<1>5. Gentle(w, u) /\ u \in Worlds
  BY <1>2, PutMobGentle DEF Gentle, Calm
<1> HIDE DEF u, P
<1> QED
  BY <1>4, <1>5, ClearTargetGentle, GentleChain

LEMMA MobChasesSound ==
    ASSUME Sound, NEW m \in Mobs, MobChases(m)
    PROVE  Sound' /\ Explained
<1> DEFINE R(w) == [w EXCEPT !.mob[m].ai = "roused"]
<1>1. PICK w \in ResolveMobTarget(World, m) :
        \E v : (v = EnterEvade(w, m) \/ v = R(w)) /\ Become(v) /\ Done(m, v, FALSE)
  BY DEF MobChases
<1>2. PICK v : (v = EnterEvade(w, m) \/ v = R(w)) /\ Become(v) /\ Done(m, v, FALSE)
  BY <1>1
<1> DEFINE s == [w.mob[m] EXCEPT !.ai = "roused"]
<1>3. World \in Worlds /\ Good(World)
  BY DEF Sound, Good
<1>4. Gentle(World, w) /\ w \in Worlds
  BY <1>3, ResolveSteps DEF Gentle, Calm
<1>5. R(w) = [w EXCEPT !.mob[m] = s]
  OBVIOUS
<1>6. s \in MobSet /\ s.alive = w.mob[m].alive /\ s.health = w.mob[m].health
  <2>1. w.mob[m] \in MobSet
    BY <1>4, WorldFields
  <2> QED
    BY <2>1 DEF MobSet
<1> HIDE DEF R, s
<1>7. Gentle(w, v)
  BY <1>2, <1>4, <1>5, <1>6, EvadeGentle, PutMobGentle
<1>8. Correct(v)
  BY <1>3, <1>4, <1>7, GentleChain, CalmCorrect DEF Gentle
<1> QED
  BY <1>2, <1>8, DoneSound DEF MobChases

\* A mob hurts the one it is after, and nobody else.
Bitten(w, v, p) ==
    /\ v \in Worlds /\ v.duels = w.duels /\ v.book = w.book
    /\ \A q \in Players \ {p} : /\ v.session[q].alive = w.session[q].alive
                                /\ v.session[q].health = w.session[q].health
    /\ \A n \in Mobs : v.mob[n].alive = w.mob[n].alive /\ v.mob[n].health = w.mob[n].health
    /\ Lively(v.session[p])

LEMMA BittenGood ==
    ASSUME NEW w, Good(w), NEW v, NEW p \in Players, Bitten(w, v, p)
    PROVE  Good(v)
<1>1. w \in Worlds /\ Fair(w) /\ Hale(w) /\ Paid(w) /\ v \in Worlds
  BY DEF Good, Bitten
<1>2. Fair(v)
  BY <1>1, FewerDuels DEF Bitten
<1>3. Hale(v)
  <2>1. ASSUME NEW q \in Players, Lively(w.session[q])
        PROVE  Lively(v.session[q])
    <3>1. CASE q = p
      BY <3>1 DEF Bitten
    <3>2. CASE q # p
      BY <2>1, <3>2 DEF Bitten, Lively
    <3> QED
      BY <3>1, <3>2
  <2>2. \A n \in Mobs : Lively(w.mob[n]) => Lively(v.mob[n])
    BY DEF Bitten, Lively
  <2> QED
    BY <1>1, <2>1, <2>2 DEF Hale
<1>4. Paid(v)
  BY <1>1 DEF Paid, Bitten
<1> QED
  BY <1>1, <1>2, <1>3, <1>4 DEF Good

LEMMA BiteSteps ==
    ASSUME NEW w \in Worlds, NEW p \in Players, NEW m \in Mobs, w.session[p].alive
    PROVE  LET k == IF w.session[p].health > 0 THEN w.session[p].health - 1 ELSE 0
               hurt == [[w EXCEPT !.session[p] = [w.session[p] EXCEPT !.health = k]]
                          EXCEPT !.mob[m] = [w.mob[m] EXCEPT !.ai = "roused"]]
           IN /\ hurt \in Worlds /\ hurt.duels = w.duels /\ hurt.book = w.book
              /\ hurt.session[p].health = k /\ hurt.session[p].alive = TRUE
              /\ \A q \in Players \ {p} : hurt.session[q] = w.session[q]
              /\ \A n \in Mobs : hurt.mob[n].alive = w.mob[n].alive /\ hurt.mob[n].health = w.mob[n].health
<1> DEFINE k == IF w.session[p].health > 0 THEN w.session[p].health - 1 ELSE 0
           s == [w.session[p] EXCEPT !.health = k]
           t == [w.mob[m] EXCEPT !.ai = "roused"]
           u == [w EXCEPT !.session[p] = s]
           hurt == [u EXCEPT !.mob[m] = t]
<1>1. /\ w.session[p].health \in Nat /\ w.session[p].health <= MaxHealth
      /\ w.session[p] \in SessionSet /\ w.mob[m] \in MobSet
  BY HealthIsNumber, WorldFields
<1>2. k \in 0..MaxHealth
  BY <1>1, ConstantFacts
<1> HIDE DEF k
<1>3. s \in SessionSet /\ s.alive = TRUE /\ s.health = k
  <2>1. s \in SessionSet
    BY <1>1, <1>2, SessionUpdates
  <2> QED
    BY <1>1, <2>1 DEF SessionSet
<1>4. t \in MobSet /\ t.alive = w.mob[m].alive /\ t.health = w.mob[m].health
  BY <1>1 DEF MobSet
<1> HIDE DEF s, t
<1>5. /\ u \in Worlds /\ u.session[p] = s /\ \A q \in Players \ {p} : u.session[q] = w.session[q]
      /\ u.mob = w.mob /\ u.duels = w.duels /\ u.book = w.book
  BY <1>3, PutSession
<1> HIDE DEF u
<1>6. /\ hurt \in Worlds /\ hurt.mob[m] = t /\ \A n \in Mobs \ {m} : hurt.mob[n] = u.mob[n]
      /\ hurt.session = u.session /\ hurt.duels = u.duels /\ hurt.book = u.book
  BY <1>4, <1>5, PutMob
<1> HIDE DEF hurt
<1>7. /\ hurt \in Worlds /\ hurt.duels = w.duels /\ hurt.book = w.book
      /\ hurt.session[p].health = k /\ hurt.session[p].alive = TRUE
      /\ \A q \in Players \ {p} : hurt.session[q] = w.session[q]
      /\ \A n \in Mobs : hurt.mob[n].alive = w.mob[n].alive /\ hurt.mob[n].health = w.mob[n].health
  BY <1>3, <1>4, <1>5, <1>6
<1> QED
  BY <1>7 DEF hurt, u, s, t, k

Bite(w, p, m) ==
    [w EXCEPT !.session[p].health = IF @ > 0 THEN @ - 1 ELSE 0, !.mob[m].ai = "roused"]
Kill(c, p, m) ==
    [c EXCEPT !.session[p].alive = FALSE, !.session[p].aura = Nobody,
              !.mob[m].target = Nobody, !.mob[m].ai = "idle"]

Slain(c, v, p) ==
    /\ v \in Worlds /\ v.duels = c.duels /\ v.book = c.book
    /\ v.session[p].alive = FALSE /\ v.session[p].health = c.session[p].health
    /\ \A q \in Players \ {p} : v.session[q] = c.session[q]
    /\ \A n \in Mobs : v.mob[n].alive = c.mob[n].alive /\ v.mob[n].health = c.mob[n].health

LEMMA KillSteps ==
    ASSUME NEW c \in Worlds, NEW p \in Players, NEW m \in Mobs
    PROVE  Slain(c, Kill(c, p, m), p)
<1> DEFINE s == [c.session[p] EXCEPT !.alive = FALSE, !.aura = Nobody]
           t == [c.mob[m] EXCEPT !.target = Nobody, !.ai = "idle"]
           u == [c EXCEPT !.session[p] = s]
           v == [u EXCEPT !.mob[m] = t]
<1>1. c.session[p] \in SessionSet /\ c.mob[m] \in MobSet
  BY WorldFields
<1>2. s \in SessionSet /\ s.alive = FALSE /\ s.health = c.session[p].health
  <2>1. [c.session[p] EXCEPT !.alive = FALSE] \in SessionSet
    BY <1>1, SessionUpdates
  <2>2. [[c.session[p] EXCEPT !.alive = FALSE] EXCEPT !.aura = Nobody] \in SessionSet
    BY <2>1, SessionUpdates
  <2>3. s \in SessionSet
    BY <2>2
  <2> QED
    BY <1>1, <2>3 DEF SessionSet
<1>3. t \in MobSet /\ t.alive = c.mob[m].alive /\ t.health = c.mob[m].health
  BY <1>1 DEF MobSet
<1>4. Kill(c, p, m) = v
  <2>1. c.session \in [Players -> SessionSet] /\ c.mob \in [Mobs -> MobSet]
    BY WorldFields
  <2>2. Kill(c, p, m) = [c EXCEPT
           !.session = [[c.session EXCEPT ![p] = [c.session[p] EXCEPT !.alive = FALSE]]
                          EXCEPT ![p] = [@ EXCEPT !.aura = Nobody]],
           !.mob = [[c.mob EXCEPT ![m] = [c.mob[m] EXCEPT !.target = Nobody]]
                      EXCEPT ![m] = [@ EXCEPT !.ai = "idle"]]]
    BY DEF Kill, Worlds
  <2>3. [[c.session EXCEPT ![p] = [c.session[p] EXCEPT !.alive = FALSE]]
           EXCEPT ![p] = [@ EXCEPT !.aura = Nobody]] = [c.session EXCEPT ![p] = s]
    BY <2>1
  <2>4. [[c.mob EXCEPT ![m] = [c.mob[m] EXCEPT !.target = Nobody]]
           EXCEPT ![m] = [@ EXCEPT !.ai = "idle"]] = [c.mob EXCEPT ![m] = t]
    BY <2>1
  <2>5. v = [c EXCEPT !.session = [c.session EXCEPT ![p] = s], !.mob = [c.mob EXCEPT ![m] = t]]
    <3> HIDE DEF s, t
    <3> QED
      BY DEF Worlds
  <2> QED
    BY <2>2, <2>3, <2>4, <2>5
<1> HIDE DEF s, t
<1>5. /\ u \in Worlds /\ u.session[p] = s /\ \A q \in Players \ {p} : u.session[q] = c.session[q]
      /\ u.mob = c.mob /\ u.duels = c.duels /\ u.book = c.book
  BY <1>2, PutSession
<1> HIDE DEF u
<1>6. /\ v \in Worlds /\ v.mob[m] = t /\ \A n \in Mobs \ {m} : v.mob[n] = u.mob[n]
      /\ v.session = u.session /\ v.duels = u.duels /\ v.book = u.book
  BY <1>3, <1>5, PutMob
<1> HIDE DEF v
<1> QED
  BY <1>2, <1>3, <1>4, <1>5, <1>6 DEF Slain

LEMMA StruckDown ==
    ASSUME NEW w \in Worlds, NEW p \in Players, NEW m \in Mobs, w.session[p].alive,
           NEW v, v = IF Bite(w, p, m).session[p].health = 0
                      THEN Kill(ClearTarget(Bite(w, p, m), {p}), p, m) ELSE Bite(w, p, m)
    PROVE  Bitten(w, v, p)
<1> DEFINE k == IF w.session[p].health > 0 THEN w.session[p].health - 1 ELSE 0
           hurt == [[w EXCEPT !.session[p] = [w.session[p] EXCEPT !.health = k]]
                      EXCEPT !.mob[m] = [w.mob[m] EXCEPT !.ai = "roused"]]
           c == ClearTarget(hurt, {p})
<1>1. Bite(w, p, m) = hurt
  BY DEF Bite, Worlds
<1>2. /\ hurt \in Worlds /\ hurt.duels = w.duels /\ hurt.book = w.book
      /\ hurt.session[p].health = k /\ hurt.session[p].alive = TRUE
      /\ \A q \in Players \ {p} : hurt.session[q] = w.session[q]
      /\ \A n \in Mobs : hurt.mob[n].alive = w.mob[n].alive /\ hurt.mob[n].health = w.mob[n].health
  BY BiteSteps
<1>3. k \in Nat
  BY HealthIsNumber
<1> HIDE DEF k, hurt
<1>4. Gentle(hurt, c) /\ c \in Worlds /\ c.duels = hurt.duels
  BY <1>2, ClearTargetGentle DEF Gentle, Calm
<1> HIDE DEF c
<1>5. CASE k = 0
  <2>1. v = Kill(c, p, m)
    BY <1>1, <1>2, <1>5 DEF c
  <2>2. Slain(c, v, p)
    BY <1>4, <2>1, KillSteps
  <2>3. Lively(v.session[p])
    BY <1>2, <1>4, <1>5, <2>2 DEF Gentle, Calm, Lively, Slain
  <2>4. /\ v \in Worlds /\ v.duels = w.duels /\ v.book = w.book
    BY <1>2, <1>4, <2>2 DEF Gentle, Calm, Slain
  <2>7. /\ \A q \in Players : /\ c.session[q].alive = hurt.session[q].alive
                            /\ c.session[q].health = hurt.session[q].health
        /\ \A n \in Mobs : c.mob[n].alive = hurt.mob[n].alive /\ c.mob[n].health = hurt.mob[n].health
    BY <1>4 DEF Gentle, Calm
  <2>8. /\ \A q \in Players \ {p} : v.session[q] = c.session[q]
        /\ \A n \in Mobs : v.mob[n].alive = c.mob[n].alive /\ v.mob[n].health = c.mob[n].health
    BY <2>2 DEF Slain
  <2>9. \A q \in Players \ {p} : hurt.session[q] = w.session[q]
    BY <1>2
  <2>10. \A n \in Mobs : hurt.mob[n].alive = w.mob[n].alive /\ hurt.mob[n].health = w.mob[n].health
    BY <1>2
  <2>5. \A q \in Players \ {p} : /\ v.session[q].alive = w.session[q].alive
                                /\ v.session[q].health = w.session[q].health
    <3> SUFFICES ASSUME NEW q \in Players \ {p}
                 PROVE  v.session[q].alive = w.session[q].alive /\ v.session[q].health = w.session[q].health
      OBVIOUS
    <3>1. v.session[q] = c.session[q] /\ hurt.session[q] = w.session[q]
      BY <2>8, <2>9
    <3>2. c.session[q].alive = hurt.session[q].alive /\ c.session[q].health = hurt.session[q].health
      BY <2>7
    <3> QED
      BY <3>1, <3>2
  <2>6. \A n \in Mobs : v.mob[n].alive = w.mob[n].alive /\ v.mob[n].health = w.mob[n].health
    BY <2>7, <2>8, <2>10
  <2> QED
    BY <2>3, <2>4, <2>5, <2>6 DEF Bitten
<1>6. CASE k # 0
  <2>1. v = hurt
    BY <1>1, <1>2, <1>6
  <2>2. Lively(v.session[p])
    BY <2>1, <1>2, <1>3, <1>6 DEF Lively
  <2> QED
    BY <1>2, <2>1, <2>2 DEF Bitten
<1> QED
  BY <1>5, <1>6

LEMMA MobStrikesSound ==
    ASSUME Sound, NEW m \in Mobs, MobStrikes(m)
    PROVE  Sound' /\ Explained
<1> DEFINE V(w, p) == IF Bite(w, p, m).session[p].health = 0
                      THEN Kill(ClearTarget(Bite(w, p, m), {p}), p, m) ELSE Bite(w, p, m)
<1>1. PICK w \in ResolveMobTarget(World, m) :
        LET p == w.mob[m].target
        IN /\ w.mob[m].targetable /\ p # Nobody
           /\ w.session[p].place = "field" \/ "follows" \in Races
           /\ Become(V(w, p)) /\ Done(m, V(w, p), FALSE)
  BY DEF MobStrikes, Bite, Kill
<1> DEFINE p == w.mob[m].target
           v == V(w, p)
<1>2. /\ w.mob[m].targetable /\ p # Nobody
      /\ w.session[p].place = "field" \/ "follows" \in Races
      /\ Become(v) /\ Done(m, v, FALSE)
  BY <1>1
<1>3. World \in Worlds /\ Good(World)
  BY DEF Sound, Good
<1>4. /\ Gentle(World, w) /\ Good(w) /\ w \in Worlds
      /\ p \in Players /\ Standing(w, p)
  <2>1. Gentle(World, w)
    BY <1>3, ResolveSteps
  <2>2. Good(w) /\ w \in Worlds
    BY <1>3, <2>1, CalmKeeps DEF Gentle, Calm
  <2>3. p \in Players /\ Standing(w, p)
    BY <1>2, <1>3, ResolveSteps
  <2> QED
    BY <2>1, <2>2, <2>3
<1>11. v = IF Bite(w, p, m).session[p].health = 0
           THEN Kill(ClearTarget(Bite(w, p, m), {p}), p, m) ELSE Bite(w, p, m)
  OBVIOUS
<1> HIDE DEF p, V, v
<1>5. Bitten(w, v, p)
  BY <1>4, <1>11, StruckDown DEF Standing
<1>6. Good(v)
  BY <1>4, <1>5, BittenGood
<1>7. Accounted(v)
  <2> SUFFICES ASSUME "follows" \notin Races, NEW q \in Players, v.session[q].health < session[q].health
               PROVE  turn.phase = "mobs" /\ On(World, q) /\ session[q].place = "field"
    BY DEF Accounted
  <2>1. session[q].health \in Nat /\ w.session[q].health = session[q].health
    BY <1>3, <1>4, HealthIsNumber, WorldIs DEF Gentle, Calm
  <2>2. q = p
    BY <2>1, <1>5 DEF Bitten
  <2>3. On(World, q) /\ session[q].place = "field"
    BY <2>2, <1>2, <1>4, WorldIs DEF Gentle, Stay, Standing, On
  <2> QED
    BY <2>3 DEF MobStrikes
<1>8. Correct(v)
  BY <1>6, <1>7 DEF Correct
<1> QED
  BY <1>2, <1>8, DoneSound DEF MobStrikes

-----------------------------------------------------------------------------
(* Requests. *)

LEMMA CalmAnswer ==
    ASSUME Sound, NEW v, Calm(World, v), Answers(v) \/ AtOnce(v)
    PROVE  Sound' /\ Explained
BY CalmCorrect, AnswersSound DEF Sound

LEMMA StateSound == ASSUME Sound, State PROVE Sound' /\ Explained
<1>1. Calm(World, World)
  BY GentleSelf DEF Sound, Good, Gentle
<1> QED
  BY <1>1, CalmAnswer DEF State

LEMMA HandleTargetSound ==
    ASSUME Sound, NEW p \in Players, HandleTarget(p)
    PROVE  Sound' /\ Explained
<1>1. World \in Worlds
  BY DEF Sound, Good
<1>2. CASE ResetTarget(p)
  <2>1. Calm(World, ClearTarget(World, {p}))
    BY <1>1, ClearTargetGentle DEF Gentle
  <2> QED
    BY <1>2, <2>1, CalmAnswer DEF ResetTarget
<1>3. ASSUME NEW x \in Players \cup Mobs, SetTarget(p, x)
      PROVE  Sound' /\ Explained
  <2> DEFINE s == [World.session[p] EXCEPT !.target = x]
             v == [World EXCEPT !.session[p] = s]
  <2>1. Answers(v)
    BY <1>3 DEF SetTarget, World
  <2>2. World.session[p] \in SessionSet
    BY <1>1, WorldFields
  <2>3. s \in SessionSet
    BY <2>2, SessionUpdates DEF Targets
  <2>4. /\ s.alive = World.session[p].alive /\ s.health = World.session[p].health
        /\ s.linked = World.session[p].linked /\ s.place = World.session[p].place
    BY <2>2 DEF SessionSet
  <2> HIDE DEF s
  <2>5. Calm(World, v)
    BY <1>1, <2>3, <2>4, PutSessionGentle DEF Gentle
  <2> QED
    BY <2>1, <2>5, CalmAnswer
<1> QED
  BY <1>2, <1>3 DEF HandleTarget

LEMMA HandleAutoAttackSound ==
    ASSUME Sound, NEW p \in Players, HandleAutoAttack(p)
    PROVE  Sound' /\ Explained
<1>1. World \in Worlds
  BY DEF Sound, Good
<1>2. CASE StopAttack(p)
  <2>1. Calm(World, StopAutoAttack(World, p))
    BY <1>1, StopAutoAttackGentle DEF Gentle
  <2> QED
    BY <1>2, <2>1, CalmAnswer DEF StopAttack
<1>3. CASE SetAutoAttack(p)
  <2> DEFINE s == [World.session[p] EXCEPT !.auto = TRUE]
             v == [World EXCEPT !.session[p] = s]
  <2>1. Answers(v)
    BY <1>3 DEF SetAutoAttack, World
  <2>2. World.session[p] \in SessionSet
    BY <1>1, WorldFields
  <2>3. s \in SessionSet
    BY <2>2, SessionUpdates
  <2>4. /\ s.alive = World.session[p].alive /\ s.health = World.session[p].health
        /\ s.linked = World.session[p].linked /\ s.place = World.session[p].place
    BY <2>2 DEF SessionSet
  <2> HIDE DEF s
  <2>5. Calm(World, v)
    BY <1>1, <2>3, <2>4, PutSessionGentle DEF Gentle
  <2> QED
    BY <2>1, <2>5, CalmAnswer
<1> QED
  BY <1>2, <1>3 DEF HandleAutoAttack

LEMMA HandleAbilitySound ==
    ASSUME Sound, NEW p \in Players, HandleAbility(p)
    PROVE  Sound' /\ Explained
<1>1. World \in Worlds /\ Good(World) /\ World.session[p] \in SessionSet
  BY WorldFields DEF Sound, Good
<1>2. PICK a \in Abilities : ActivateAbility(p, a)
  BY DEF HandleAbility
<1>3. World.session[p].target \in Targets /\ World.session[p].target = session[p].target
  BY <1>1, SessionFields, WorldIs
<1>4. CASE a.cast
  <2> DEFINE k == [ability |-> a, target |-> World.session[p].target]
             s == [World.session[p] EXCEPT !.casting = k]
             v == [World EXCEPT !.session[p] = s]
  <2>1. Answers(v)
    BY <1>2, <1>4 DEF ActivateAbility, StartAbilityCast
  <2>2. k \in Castings
    BY <1>2, <1>3 DEF Castings
  <2> HIDE DEF k
  <2>3. s \in SessionSet
    BY <1>1, <2>2, SessionUpdates
  <2>4. /\ s.alive = World.session[p].alive /\ s.health = World.session[p].health
        /\ s.linked = World.session[p].linked /\ s.place = World.session[p].place
    BY <1>1 DEF SessionSet
  <2> HIDE DEF s
  <2>5. Calm(World, v)
    BY <1>1, <2>3, <2>4, PutSessionGentle DEF Gentle
  <2> QED
    BY <2>1, <2>5, CalmAnswer
<1>5. CASE ~a.cast
  <2> DEFINE x == session[p].target
  <2>1. PICK saved \in Saves : Answers(ResolveAbilityEffects(World, p, x, a, saved))
    BY <1>2, <1>5 DEF ActivateAbility
  <2>2. x \in Targets
    BY <1>3
  <2> HIDE DEF x
  <2>3. Fought(World, ResolveAbilityEffects(World, p, x, a, saved))
    BY <1>1, <2>2, EffectsFought
  <2> QED
    BY <1>1, <2>1, <2>3, FoughtCorrect, AnswersSound
<1> QED
  BY <1>4, <1>5

LEMMA HandleDuelRequestSound ==
    ASSUME Sound, NEW p \in Players, HandleDuelRequest(p)
    PROVE  Sound' /\ Explained
<1>1. World \in Worlds /\ Fair(World) /\ Hale(World) /\ Paid(World) /\ Good(World)
  BY DEF Sound, Good
<1>2. PICK q \in Players : RequestDuel(p, q)
  BY DEF HandleDuelRequest
<1> DEFINE e == [challenger |-> p, target |-> q, state |-> "pending"]
           v == [World EXCEPT !.duels = World.duels \cup {e}]
<1>3. Answers(v) /\ p # q /\ ~Dueling(World, p) /\ ~Dueling(World, q)
  BY <1>2 DEF RequestDuel
<1>4. e \in DuelSet /\ e.challenger # e.target /\ e.state # "active"
  BY <1>3 DEF DuelSet
<1>5. \A d \in World.duels : Both(d) \cap Both(e) = {}
  BY <1>3 DEF Both, Dueling, DuelsOf
<1> HIDE DEF e
<1>6. /\ v \in Worlds /\ v.session = World.session /\ v.mob = World.mob
      /\ v.duels = World.duels \cup {e} /\ v.book = World.book
  BY <1>1, <1>4 DEF Worlds
<1> HIDE DEF v
<1>7. Fair(v)
  BY <1>1, <1>4, <1>5, <1>6, AddedDuel
<1>8. Hale(v) /\ Paid(v)
  BY <1>1, <1>6 DEF Hale, Paid
<1>9. Quiet(World, v)
  BY <1>1, <1>6, SameSessionsQuiet
<1>10. Correct(v)
  BY <1>1, <1>6, <1>7, <1>8, <1>9, QuietCorrect DEF Good
<1> QED
  BY <1>3, <1>10, AnswersSound

LEMMA CancelDuelsAnswer ==
    ASSUME Sound, NEW D, Answers(CancelDuels(World, D))
    PROVE  Sound' /\ Explained
<1>1. Calm(World, CancelDuels(World, D))
  BY CancelDuelsGentle DEF Sound, Good, Gentle
<1> QED
  BY <1>1, CalmAnswer

LEMMA AcceptDuelSound ==
    ASSUME Sound, NEW d \in World.duels, AcceptDuel(d)
    PROVE  Sound' /\ Explained
<1>1. World \in Worlds /\ Fair(World) /\ Hale(World) /\ Paid(World) /\ Good(World)
  BY DEF Sound, Good
<1> DEFINE e == [d EXCEPT !.state = "countdown"]
           v == [World EXCEPT !.duels = (World.duels \ {d}) \cup {e}]
<1>2. CASE Answers(CancelDuels(World, {d}))
  BY <1>2, CancelDuelsAnswer
<1>3. CASE Answers(v)
  <2>1. d \in DuelSet
    BY <1>1, WorldFields
  <2>2. /\ e \in DuelSet /\ e.challenger = d.challenger /\ e.target = d.target /\ e.state # "active"
    BY <2>1 DEF DuelSet
  <2>3. Both(e) = Both(d) /\ e.challenger # e.target
    BY <1>1, <2>2 DEF Both, Fair
  <2> HIDE DEF e
  <2>4. /\ v \in Worlds /\ v.session = World.session /\ v.mob = World.mob /\ v.book = World.book
        /\ v.duels = (World.duels \ {d}) \cup {e}
    <3>1. (World.duels \ {d}) \cup {e} \in SUBSET DuelSet
      BY <1>1, <2>2, WorldFields
    <3> QED
      BY <1>1, <3>1 DEF Worlds
  <2>10. Answers(v)
    BY <1>3 DEF e
  <2> HIDE DEF v
  <2>5. Fair(v)
    BY <1>1, <2>2, <2>3, <2>4, ChangedDuel
  <2>6. Hale(v) /\ Paid(v)
    BY <1>1, <2>4 DEF Hale, Paid
  <2>7. Quiet(World, v)
    BY <1>1, <2>4, SameSessionsQuiet
  <2>8. Correct(v)
    BY <1>1, <2>4, <2>5, <2>6, <2>7, QuietCorrect DEF Good
  <2> QED
    BY <2>10, <2>8, AnswersSound
<1> QED
  BY <1>2, <1>3 DEF AcceptDuel

LEMMA SurrenderDuelSound ==
    ASSUME Sound, NEW p \in Players, NEW d \in DuelsOf(World, p), SurrenderDuel(d, p)
    PROVE  Sound' /\ Explained
<1>1. World \in Worlds /\ Good(World) /\ Fair(World) /\ d \in World.duels
  BY DEF Sound, Good, DuelsOf
<1>2. CASE d.state # "active"
  BY <1>2, CancelDuelsAnswer DEF SurrenderDuel
<1>3. CASE d.state = "active"
  <2> DEFINE winner == CHOOSE q \in {d.challenger, d.target} : q # p
  <2>1. PICK saved \in Saves : Answers(EndDuel(World, d, winner, saved))
    BY <1>3 DEF SurrenderDuel
  <2>2. winner \in Both(d)
    BY <1>1 DEF Both, Fair
  <2>3. d \in Active(World)
    BY <1>1, <1>3 DEF Active
  <2> DEFINE v == EndDuel(World, d, winner, saved)
  <2>6. Answers(v)
    BY <2>1
  <2> HIDE DEF winner
  <2>4. /\ Good(v)
        /\ \A q \in Players : World.session[q].health <= v.session[q].health
    BY <1>1, <2>2, <2>3, EndDuelSteps
  <2> HIDE DEF v
  <2>5. Quiet(World, v)
    BY <2>4 DEF Quiet
  <2>7. Correct(v)
    BY <1>1, <2>4, <2>5, QuietCorrect
  <2> QED
    BY <2>6, <2>7, AnswersSound
<1> QED
  BY <1>2, <1>3

LEMMA DuelAnswersSound ==
    ASSUME Sound, NEW p \in Players,
           \/ HandleDuelAccept(p) \/ HandleDuelDecline(p)
           \/ HandleDuelCancel(p) \/ HandleDuelSurrender(p)
    PROVE  Sound' /\ Explained
<1>1. PICK d \in DuelsOf(World, p) :
        AcceptDuel(d) \/ DeclineDuel(d) \/ CancelDuel(d, p) \/ SurrenderDuel(d, p)
  BY DEF HandleDuelAccept, HandleDuelDecline, HandleDuelCancel, HandleDuelSurrender
<1>2. d \in World.duels
  BY DEF DuelsOf
<1>3. CASE AcceptDuel(d)
  BY <1>2, <1>3, AcceptDuelSound
<1>4. CASE DeclineDuel(d)
  BY <1>4, CancelDuelsAnswer DEF DeclineDuel
<1>5. CASE SurrenderDuel(d, p)
  BY <1>5, SurrenderDuelSound
<1>6. CASE CancelDuel(d, p)
  BY <1>6, SurrenderDuelSound, CancelDuelsAnswer DEF CancelDuel
<1> QED
  BY <1>1, <1>3, <1>4, <1>5, <1>6

\* A session is replaced by one as lively, linked or placed otherwise.
LEMMA PutSessionCalm ==
    ASSUME NEW w, NEW u, Calm(w, u), NEW p \in Players, NEW s \in SessionSet,
           s.alive = u.session[p].alive, s.health = u.session[p].health
    PROVE  Calm(w, [u EXCEPT !.session[p] = s])
<1> DEFINE v == [u EXCEPT !.session[p] = s]
<1>1. /\ v \in Worlds /\ v.session[p] = s /\ \A q \in Players \ {p} : v.session[q] = u.session[q]
      /\ v.mob = u.mob /\ v.duels = u.duels /\ v.book = u.book
  BY PutSession DEF Calm
<1> HIDE DEF v
<1>2. Calm(u, v)
  BY <1>1 DEF Calm
<1>3. Calm(w, v)
  BY <1>2, CalmChain
<1> QED
  BY <1>3 DEF v

\* The session starts from the kills the store has.
Recount(w, p) == [w EXCEPT !.book.credit[p] = w.book.stored[p]]

LEMMA RecountGood ==
    ASSUME NEW w, Good(w), NEW p \in Players
    PROVE  Good(Recount(w, p)) /\ Recount(w, p).session = w.session
<1> DEFINE b == [w.book EXCEPT !.credit[p] = w.book.stored[p]]
           v == [w EXCEPT !.book = b]
<1>1. w \in Worlds /\ Fair(w) /\ Hale(w) /\ Paid(w)
  BY DEF Good
<1>2. /\ w.book \in BookSet /\ w.book.credit \in [Players -> Nat] /\ w.book.stored \in [Players -> Nat]
  BY <1>1, BookFields
<1>3. /\ b \in BookSet /\ b.won = w.book.won /\ b.lost = w.book.lost /\ b.bouts = w.book.bouts
      /\ b.stored = w.book.stored /\ b.loot = w.book.loot /\ b.killed = w.book.killed
      /\ b.credit[p] = w.book.stored[p]
      /\ \A q \in Players : q # p => b.credit[q] = w.book.credit[q]
  BY <1>2 DEF BookSet
<1>4. Recount(w, p) = v
  BY DEF Recount
<1> HIDE DEF b
<1>5. /\ v \in Worlds /\ v.session = w.session /\ v.mob = w.mob
      /\ v.duels = w.duels /\ v.book = b
  BY <1>1, <1>3, PutBook
<1> HIDE DEF v
<1>6. Fair(v)
  BY <1>1, <1>3, <1>5, FewerDuels
<1>7. Hale(v)
  BY <1>1, <1>5 DEF Hale
<1>8. Paid(v)
  BY <1>1, <1>3, <1>5 DEF Paid
<1> QED
  BY <1>4, <1>5, <1>6, <1>7, <1>8 DEF Good

LEMMA ConnectSound ==
    ASSUME Sound, NEW p \in Players, Connect(p)
    PROVE  Sound' /\ Explained
<1> DEFINE u == Recount(World, p)
           v == [u EXCEPT !.session[p] = NewSession]
<1>1. Good(World) /\ World \in Worlds
  BY DEF Sound, Good
<1>2. Answers(v)
  BY <1>1, WorldIs DEF Connect, Recount, Worlds
<1>3. Good(u) /\ u.session = World.session
  BY <1>1, RecountGood
<1> HIDE DEF u
<1>4. /\ NewSession \in SessionSet /\ Lively(NewSession)
      /\ u.session[p].health <= NewSession.health
  <2>1. u.session[p].health <= MaxHealth
    BY <1>3, HealthIsNumber DEF Good
  <2> QED
    BY <2>1, NewRecords, ConstantFacts DEF Lively
<1>5. Good(v) /\ Quiet(u, v)
  BY <1>3, <1>4, PutSessionQuiet
<1> HIDE DEF v
<1>6. Quiet(World, v)
  BY <1>3, <1>5 DEF Quiet
<1> QED
  BY <1>1, <1>2, <1>5, <1>6, QuietCorrect, AnswersSound

LEMMA RevivedSteps ==
    ASSUME NEW r \in SessionSet
    PROVE  /\ Revived(r) \in SessionSet /\ Lively(Revived(r))
           /\ r.health <= Revived(r).health
<1>1. r.health \in Nat /\ r.health <= MaxHealth /\ r.alive \in BOOLEAN
  BY SessionFields, ConstantFacts
<1>2. CASE ~r.alive \/ r.health = 0
  <2> DEFINE s == [r EXCEPT !.alive = TRUE, !.health = MaxHealth]
  <2>1. Revived(r) = s
    BY <1>2 DEF Revived
  <2>2. s \in SessionSet /\ s.alive = TRUE /\ s.health = MaxHealth
    <3> DEFINE t == [r EXCEPT !.alive = TRUE]
               z == [t EXCEPT !.health = MaxHealth]
    <3>1. s = z
      OBVIOUS
    <3>2. MaxHealth \in 0..MaxHealth
      BY ConstantFacts
    <3>3. t \in SessionSet /\ t.alive = TRUE
      BY DEF SessionSet
    <3> HIDE DEF t, s
    <3>4. z \in SessionSet /\ z.alive = TRUE /\ z.health = MaxHealth
      BY <3>2, <3>3 DEF SessionSet
    <3> QED
      BY <3>1, <3>4
  <2> HIDE DEF s
  <2> QED
    BY <2>1, <2>2, <1>1, ConstantFacts DEF Lively
<1>3. CASE r.alive /\ r.health # 0
  BY <1>1, <1>3 DEF Revived, Lively
<1> QED
  BY <1>2, <1>3

LEMMA ReconnectSound ==
    ASSUME Sound, NEW p \in Players, Reconnect(p)
    PROVE  Sound' /\ Explained
<1> DEFINE x == CancelDuels(World, DuelsOf(World, p))
           y == ClearTarget(x, {p})
           rid == ClearMobAggro(y, p)
           r == [rid.session[p] EXCEPT !.linked = "on"]
           u == Recount(rid, p)
           v == [u EXCEPT !.session[p] = Revived(r)]
<1>1. Good(World) /\ World \in Worlds
  BY DEF Sound, Good
<1>2. Answers(Reconnected(World, p))
  BY DEF Reconnect
<1>3. Reconnected(World, p) =
        [rid EXCEPT !.session[p] = Revived(r), !.book.credit[p] = World.book.stored[p]]
  BY DEF Reconnected
<1>4. Gentle(World, x) /\ x \in Worlds
  BY <1>1, CancelDuelsGentle DEF Gentle, Calm
<1> HIDE DEF x
<1>5. Gentle(x, y) /\ y \in Worlds
  BY <1>4, ClearTargetGentle DEF Gentle, Calm
<1> HIDE DEF y
<1>6. Gentle(y, rid)
  BY <1>5, ClearMobAggroGentle
<1> HIDE DEF rid
<1>7. Gentle(World, rid)
  BY <1>4, <1>5, <1>6, GentleChain
<1>8. rid \in Worlds /\ Good(rid) /\ rid.book = World.book
  BY <1>1, <1>7, CalmKeeps DEF Gentle, Calm
<1>9. r \in SessionSet /\ r.health = rid.session[p].health /\ r.alive = rid.session[p].alive
  <2>1. rid.session[p] \in SessionSet
    BY <1>8, WorldFields
  <2>2. r \in SessionSet
    BY <2>1, SessionUpdates
  <2> QED
    BY <2>1, <2>2 DEF SessionSet
<1>10. Reconnected(World, p) = v
  <2> HIDE DEF r
  <2> QED
    BY <1>3, <1>8 DEF Recount, Worlds
<1> HIDE DEF r
<1>11. Good(u) /\ u.session = rid.session
  BY <1>8, RecountGood
<1> HIDE DEF u
<1>12. /\ Revived(r) \in SessionSet /\ Lively(Revived(r))
       /\ u.session[p].health <= Revived(r).health
  BY <1>9, <1>11, RevivedSteps
<1>13. Good(v) /\ Quiet(u, v)
  BY <1>11, <1>12, PutSessionQuiet
<1> HIDE DEF v
<1>14. Quiet(World, v)
  BY <1>7, <1>11, <1>13 DEF Quiet, Gentle, Calm
<1> QED
  BY <1>1, <1>2, <1>10, <1>13, <1>14, QuietCorrect, AnswersSound

Linking(u, p, x) == [u EXCEPT !.session[p].linked = x]
Placing(u, p, x) == [u EXCEPT !.session[p].place = x]

LEMMA LinkingCalm ==
    ASSUME NEW w, NEW u, Calm(w, u), NEW p \in Players, NEW x \in {"none", "on", "off"}
    PROVE  Calm(w, Linking(u, p, x))
<1> DEFINE s == [u.session[p] EXCEPT !.linked = x]
<1>1. u \in Worlds /\ u.session[p] \in SessionSet
  BY WorldFields DEF Calm
<1>2. s \in SessionSet
  BY <1>1, SessionUpdates
<1>3. s.alive = u.session[p].alive /\ s.health = u.session[p].health
  BY <1>1 DEF SessionSet
<1>4. Linking(u, p, x) = [u EXCEPT !.session[p] = s]
  BY DEF Linking
<1> HIDE DEF s
<1> QED
  BY <1>2, <1>3, <1>4, PutSessionCalm

LEMMA PlacingCalm ==
    ASSUME NEW w, NEW u, Calm(w, u), NEW p \in Players, NEW x \in {"field", "elsewhere"}
    PROVE  Calm(w, Placing(u, p, x))
<1> DEFINE s == [u.session[p] EXCEPT !.place = x]
<1>1. u \in Worlds /\ u.session[p] \in SessionSet
  BY WorldFields DEF Calm
<1>2. s \in SessionSet
  BY <1>1, SessionUpdates
<1>3. s.alive = u.session[p].alive /\ s.health = u.session[p].health
  BY <1>1 DEF SessionSet
<1>4. Placing(u, p, x) = [u EXCEPT !.session[p] = s]
  BY DEF Placing
<1> HIDE DEF s
<1> QED
  BY <1>2, <1>3, <1>4, PutSessionCalm

LEMMA CalmSteps ==
    ASSUME NEW w, NEW u, Calm(w, u)
    PROVE  /\ \A P : Calm(w, ClearTarget(u, P))
           /\ \A D : Calm(w, CancelDuels(u, D))
           /\ \A p : Calm(w, ClearMobAggro(u, p))
<1>1. u \in Worlds
  BY DEF Calm
<1>2. /\ \A P : Calm(u, ClearTarget(u, P))
      /\ \A D : Calm(u, CancelDuels(u, D))
      /\ \A p : Calm(u, ClearMobAggro(u, p))
  BY <1>1, ClearTargetGentle, CancelDuelsGentle, ClearMobAggroGentle DEF Gentle
<1> QED
  BY <1>2, CalmChain

LEMMA DisconnectSound ==
    ASSUME Sound, NEW p \in Players, Disconnect(p)
    PROVE  Sound' /\ Explained
<1> DEFINE x == CancelDuels(World, DuelsOf(World, p))
           y == ClearTarget(x, {p})
           z == Linking(y, p, "off")
<1>1. Answers(ClearMobAggro(z, p))
  BY DEF Disconnect, Linking
<1>2. Calm(World, World)
  BY GentleSelf DEF Sound, Good, Gentle
<1>3. Calm(World, x)
  BY <1>2, CalmSteps
<1> HIDE DEF x
<1>4. Calm(World, y)
  BY <1>3, CalmSteps
<1> HIDE DEF y
<1>5. Calm(World, z)
  BY <1>4, LinkingCalm
<1> HIDE DEF z
<1>6. Calm(World, ClearMobAggro(z, p))
  BY <1>5, CalmSteps
<1> QED
  BY <1>1, <1>6, CalmAnswer

LEMMA TravelSound ==
    ASSUME Sound, NEW p \in Players, Travel(p)
    PROVE  Sound' /\ Explained
<1> DEFINE away == IF session[p].place = "field" THEN "elsewhere" ELSE "field"
           y == ClearTarget(World, {p})
<1>1. Answers(Placing(y, p, away))
  BY DEF Travel, Placing
<1>2. Calm(World, World)
  BY GentleSelf DEF Sound, Good, Gentle
<1>3. Calm(World, y)
  BY <1>2, CalmSteps
<1>4. away \in {"field", "elsewhere"}
  OBVIOUS
<1> HIDE DEF y, away
<1>5. Calm(World, Placing(y, p, away))
  BY <1>3, <1>4, PlacingCalm
<1> QED
  BY <1>1, <1>5, CalmAnswer

LEMMA EnterHousingSound ==
    ASSUME Sound, NEW p \in Players, EnterHousing(p)
    PROVE  Sound' /\ Explained
<1> DEFINE y == ClearTarget(World, {p})
           z == Placing(y, p, "elsewhere")
<1>1. Answers(ClearMobAggro(z, p))
  BY DEF EnterHousing, Placing
<1>2. Calm(World, World)
  BY GentleSelf DEF Sound, Good, Gentle
<1>3. Calm(World, y)
  BY <1>2, CalmSteps
<1> HIDE DEF y
<1>4. Calm(World, z)
  BY <1>3, PlacingCalm
<1> HIDE DEF z
<1>5. Calm(World, ClearMobAggro(z, p))
  BY <1>4, CalmSteps
<1> QED
  BY <1>1, <1>5, CalmAnswer

LEMMA AdminTeleportSound ==
    ASSUME Sound, NEW p \in Players, AdminTeleport(p)
    PROVE  Sound' /\ Explained
<1> DEFINE x == ClearTarget(World, {p})
           y == CancelDuels(x, DuelsOf(World, p))
           rid == ClearMobAggro(y, p)
           z == Linking(rid, p, "on")
<1>1. AtOnce([rid EXCEPT !.session[p].linked = "on", !.session[p].place = "field"])
  BY DEF AdminTeleport
<1>2. Calm(World, World)
  BY GentleSelf DEF Sound, Good, Gentle
<1>3. Calm(World, x)
  BY <1>2, CalmSteps
<1> HIDE DEF x
<1>4. Calm(World, y)
  BY <1>3, CalmSteps
<1> HIDE DEF y
<1>5. Calm(World, rid)
  BY <1>4, CalmSteps
<1> HIDE DEF rid
<1>6. [rid EXCEPT !.session[p].linked = "on", !.session[p].place = "field"] = Placing(z, p, "field")
  <2>1. rid.session \in [Players -> SessionSet] /\ rid \in Worlds
    BY <1>5, WorldFields DEF Calm
  <2> QED
    BY <2>1 DEF Linking, Placing, Worlds
<1>7. Calm(World, z)
  BY <1>5, LinkingCalm
<1> HIDE DEF z
<1>8. Calm(World, Placing(z, p, "field"))
  BY <1>7, PlacingCalm
<1>9. AtOnce(Placing(z, p, "field"))
  BY <1>1, <1>6
<1> QED
  BY <1>8, <1>9, CalmAnswer

LEMMA AdminInvalidateSound ==
    ASSUME Sound, NEW p \in Players, AdminInvalidate(p)
    PROVE  Sound' /\ Explained
<1> DEFINE x == CancelDuels(World, DuelsOf(World, p))
           y == ClearMobAggro(x, p)
           v == [y EXCEPT !.session[p] = NoSession]
<1>1. AtOnce(v)
  BY DEF AdminInvalidate
<1>2. Calm(World, World) /\ Good(World)
  BY GentleSelf DEF Sound, Good, Gentle
<1>3. Calm(World, x)
  BY <1>2, CalmSteps
<1> HIDE DEF x
<1>4. Calm(World, y)
  BY <1>3, CalmSteps
<1> HIDE DEF y
<1>5. Good(y)
  BY <1>2, <1>4, CalmKeeps
<1>6. Lively(NoSession) /\ NoSession \in SessionSet /\ NoSession.linked = "none"
  BY NewRecords DEF Lively
<1>7. Good(v) /\ Quiet(y, v)
  BY <1>5, <1>6, PutSessionQuiet
<1> HIDE DEF v
<1>8. Quiet(World, v)
  BY <1>4, <1>7 DEF Quiet, Calm
<1> QED
  BY <1>1, <1>2, <1>7, <1>8, QuietCorrect, AnswersSound

-----------------------------------------------------------------------------
(* The theorems. *)

LEMMA InitSound == Init => Sound
<1> SUFFICES ASSUME Init PROVE Sound
  OBVIOUS
<1> DEFINE w == World
<1>1. \A p \in Players : session[p] = NewSession
  BY DEF Init
<1>2. session \in [Players -> SessionSet] /\ mob \in [Mobs -> MobSet]
  BY NewRecords DEF Init
<1>3. duels = {}
  BY DEF Init
<1>4. book \in BookSet /\ book.won = 0 /\ book.lost = 0 /\ book.bouts = 0
      /\ \A p \in Players : /\ book.credit[p] = 0 /\ book.stored[p] = 0
                            /\ book.loot[p] = 0 /\ book.killed[p] = 0
  BY DEF Init, BookSet
<1>5. World \in Worlds
  BY <1>2, <1>3, <1>4 DEF World, Worlds
<1>6. Active(World) = {} /\ Cardinality({}) = 0 /\ IsFiniteSet({})
  BY <1>3, FS_EmptySet, WorldIs DEF Active
<1>7. Fair(World)
  BY <1>3, <1>4, <1>6, WorldIs DEF Fair
<1>8. Hale(World)
  BY <1>1, NewRecords, ConstantFacts, WorldIs DEF Hale, Lively, Init
<1>9. Paid(World)
  BY <1>4, WorldIs DEF Paid
<1>10. turn.phase \in Phases
  BY DEF Init, Phases
<1> QED
  BY <1>5, <1>7, <1>8, <1>9, <1>10 DEF Sound, Good

LEMMA StepSound == ASSUME Sound, Next PROVE Sound' /\ Explained
<1>1. CASE Advance
  <2>1. CASE AdvanceDuels
    BY <2>1, AdvanceDuelsSound
  <2>2. ASSUME NEW p \in Players, AuraQuiet(p) \/ AuraTickOnPlayer(p) \/ AdvanceSession(p)
        PROVE  Sound' /\ Explained
    BY <2>2, AuraQuietSound, AuraTickOnPlayerSound, AdvanceSessionSound
  <2>3. ASSUME NEW m \in Mobs,
               \/ AuraQuiet(m) \/ AuraTickOnMob(m)
               \/ MobRespawn(m) \/ MobIdles(m) \/ MobChases(m) \/ MobStrikes(m)
        PROVE  Sound' /\ Explained
    BY <2>3, AuraQuietSound, AuraTickOnMobSound, MobRespawnSound, MobIdlesSound,
       MobChasesSound, MobStrikesSound
  <2> QED
    BY <1>1, <2>1, <2>2, <2>3 DEF Advance
<1>2. CASE Request
  <2>1. CASE State
    BY <2>1, StateSound
  <2>2. ASSUME NEW p \in Players, HandleTarget(p) \/ HandleAutoAttack(p) \/ HandleAbility(p)
        PROVE  Sound' /\ Explained
    BY <2>2, HandleTargetSound, HandleAutoAttackSound, HandleAbilitySound
  <2>3. ASSUME NEW p \in Players,
               \/ Connect(p) \/ Reconnect(p) \/ Disconnect(p)
               \/ Travel(p) \/ EnterHousing(p) \/ AdminTeleport(p) \/ AdminInvalidate(p)
        PROVE  Sound' /\ Explained
    BY <2>3, ConnectSound, ReconnectSound, DisconnectSound, TravelSound, EnterHousingSound,
       AdminTeleportSound, AdminInvalidateSound
  <2>4. ASSUME NEW p \in Players,
               \/ HandleDuelRequest(p) \/ HandleDuelAccept(p) \/ HandleDuelDecline(p)
               \/ HandleDuelCancel(p) \/ HandleDuelSurrender(p)
        PROVE  Sound' /\ Explained
    BY <2>4, HandleDuelRequestSound, DuelAnswersSound
  <2> QED
    BY <1>2, <2>1, <2>2, <2>3, <2>4 DEF Request
<1> QED
  BY <1>1, <1>2 DEF Next

LEMMA StutterSound == ASSUME Sound, UNCHANGED vars PROVE Sound' /\ Explained
<1>1. World' = World /\ turn' = turn
  BY DEF World, vars
<1>2. Good(World')
  BY <1>1 DEF Sound
<1> QED
  BY <1>1, <1>2 DEF Sound, Explained

(* Whatever the hazards: every world is typed, no character is in two duels,      *)
(* duels won and under way are among those that began; and health, kills, loot    *)
(* and lost duels agree as far as no hazard touches them.                         *)
THEOREM SoundInvariant == Spec => []Sound
<1>1. Sound /\ [Next]_vars => Sound'
  BY StepSound, StutterSound
<1> QED
  BY <1>1, InitSound, PTL DEF Spec

(* Targets, casts, auras, threat and duels never name anyone unknown, and health  *)
(* stays within its limits.                                                       *)
THEOREM TypeCorrect == Spec => []TypeOK
<1>1. Sound => TypeOK
  <2> SUFFICES ASSUME Sound PROVE TypeOK
    OBVIOUS
  <2>1. /\ session \in [Players -> SessionSet] /\ mob \in [Mobs -> MobSet]
        /\ duels \subseteq DuelSet
    BY WorldFields, WorldIs DEF Sound, Good
  <2> DEFINE T ==
          [linked : {"none", "on", "off"}, place : {"field", "elsewhere"}, alive : BOOLEAN,
           health : 0..MaxHealth, target : Players \cup Mobs \cup {Nobody}, auto : BOOLEAN,
           casting : [ability : Abilities \cup {Nobody}, target : Players \cup Mobs \cup {Nobody}],
           aura : Players \cup {Nobody}]
  <2>2. Castings \subseteq [ability : Abilities \cup {Nobody}, target : Players \cup Mobs \cup {Nobody}]
    BY DEF Castings, NotCasting, Targets
  <2>3. \A p \in Players : session[p] \in T
    <3> SUFFICES ASSUME NEW s \in SessionSet PROVE s \in T
      BY <2>1
    <3>1. s.casting \in [ability : Abilities \cup {Nobody}, target : Players \cup Mobs \cup {Nobody}]
      BY <2>2, SessionFields
    <3> QED
      BY <3>1 DEF SessionSet, Targets
  <2> QED
    BY <2>1, <2>3 DEF TypeOK, MobSet, DuelSet, Sound, Phases
<1> QED
  BY <1>1, SoundInvariant, PTL

(* Blows, heals, ticks of auras that harm or heal, deaths, defeats, respawns and   *)
(* reconnects each write health or life, and never part them: unless an aura      *)
(* harms a player to the end, or a heal or an aura's heal reaches a dead one.     *)
THEOREM LifeAndHealth ==
    ASSUME "bleeds" \notin Races, "mendsDead" \notin Races
    PROVE  Spec => []LifeIsHealth
<1>1. Sound => LifeIsHealth
  BY WorldIs DEF Sound, Good, Hale, Lively, LifeIsHealth, Linked
<1> QED
  BY <1>1, SoundInvariant, PTL

(* While saves succeed, a mob's death is credited, stored and leaves loot once,    *)
(* whoever is about to strike it as well.                                         *)
THEOREM KillsPaid ==
    ASSUME "saveFails" \notin Races
    PROVE  Spec => []EveryKillIsPaid
<1>1. Sound => EveryKillIsPaid
  BY WorldIs DEF Sound, Good, Paid, EveryKillIsPaid
<1> QED
  BY <1>1, SoundInvariant, PTL

(* However requests, answers, defeats, travel and timeouts meet, a character has   *)
(* one duel at most; and while saves succeed, as many duels are lost as are won.  *)
THEOREM DuelsCounted ==
    ASSUME "saveFails" \notin Races
    PROVE  Spec => []DuelsAddUp
<1>1. Sound => DuelsAddUp
  <2> SUFFICES ASSUME Sound PROVE DuelsAddUp
    OBVIOUS
  <2>1. World \in Worlds /\ Fair(World)
    BY DEF Sound, Good
  <2>2. ASSUME NEW p \in Players
        PROVE  Cardinality(DuelsOf(World, p)) <= 1
    <3>1. \A d, e \in DuelsOf(World, p) : d = e
      BY <2>1 DEF DuelsOf, Fair, Both
    <3>2. CASE DuelsOf(World, p) = {}
      BY <3>2, FS_EmptySet
    <3>3. CASE DuelsOf(World, p) # {}
      <4>1. PICK d : DuelsOf(World, p) = {d}
        BY <3>1, <3>3
      <4> QED
        BY <4>1, FS_Singleton
    <3> QED
      BY <3>2, <3>3
  <2>3. book.won = book.lost /\ book.won + Cardinality({d \in duels : d.state = "active"}) <= book.bouts
    BY <2>1, WorldIs DEF Fair, Active
  <2> QED
    BY <2>2, <2>3 DEF DuelsAddUp
<1> QED
  BY <1>1, SoundInvariant, PTL

(* A step that takes health from someone is a mob that is there, or a blow in a    *)
(* duel that is on: unless auras tick freely, or mobs follow to other zones.      *)
THEOREM HarmExplained ==
    ASSUME "bleeds" \notin Races, "follows" \notin Races
    PROVE  Spec => HarmHasACause
<1> DEFINE Step ==
        \A p \in Players : session'[p].health < session[p].health /\ session'[p].linked # "none" =>
         \/ turn.phase = "mobs" /\ On(World, p) /\ session[p].place = "field"
         \/ /\ session'[p].health > 0 /\ session'[p].alive
            /\ \E d \in DuelsOf(World, p) :
                  d.state = "active" /\ Together(World, d.challenger, d.target)
<1>1. Sound /\ [Next]_vars => [Step]_vars
  <2> SUFFICES ASSUME Sound, Next, ~UNCHANGED vars PROVE Step
    OBVIOUS
  <2>1. PICK v : Become(v) /\ Accounted(v)
    BY StepSound DEF Explained
  <2>2. session' = v.session
    BY <2>1 DEF Become
  <2> QED
    BY <2>1, <2>2 DEF Accounted
<1>2. Spec => [][Step]_vars
  BY <1>1, SoundInvariant, PTL DEF Spec
<1> QED
  BY <1>2 DEF HarmHasACause
=============================================================================
