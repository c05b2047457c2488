SPECIFICATION Spec
CONSTANTS
    ann = ann
    bob = bob
    Players = {ann, bob}
    Mobs = {rat}
    Nobody = Nobody
    Abilities <- MCAbilities
    Knows <- MCKnows
    Travellers = {bob}
    Attackers = {ann}
    Challengers = {bob}
    MaxHealth = 2
    MobHealth = 2
    MaxKills = 1
    MaxBouts = 1
    Races = {}
CHECK_DEADLOCK FALSE
INVARIANTS
    LifeIsHealth
    EveryKillIsPaid
    DuelsAddUp
PROPERTY
    HarmHasACause
