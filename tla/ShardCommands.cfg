SPECIFICATION CommandsSpec
CONSTANTS
    a1 = a1
    a2 = a2
    b1 = b1
    Tokens = {a1, a2, b1}
    Scenes = {"fight", "journal", "goods"}
    Natives <- MCNatives
    CharacterOf <- MCCharacterOf
    Npcs = {9}
    Refused = Refused
    FullHealth = 2
    Earners = {a1}
    MaxThreat = 2
    MaxPosition = 1
    MaxGrants = 1
    Races = {}
INVARIANTS
    ReplayReproduces
    DeadAreOut
    ClaimsAddUp
