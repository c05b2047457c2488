SPECIFICATION Spec
CONSTANTS
    ann = ann
    bob = bob
    Char = {ann, bob}
    Learners = {ann}
    None = None
    Quest = {"wolves", "lesson", "survey"}
    KindOf <- Kinds
    Requires <- Needs
    Graph <- Nodes
    LevelOf <- Levels
    RequiredLevel <- Asked
    TargetCount = 2
    StartCopper = 3
    RewardCopper = 2
    MaxFailures = 1
    TrainerCost = 2
    ProfessionCost = 1
    OrePerCraft = 2
    RivetsPerCraft = 1
    StackSize = 2
    BagSlots = 2
    MaxSkill = 2
    PointsGranted = 1
    Gear = {"sword", "axe"}
    MaxStack = 2
    OreGiven = 2
    PackSlots = 3
    ChestSlots = 2
    BarSlots = 2
    Granted = {1}
    Taken = {3}
    MaxRequests = 1
    Races = {}
CHECK_DEADLOCK FALSE
INVARIANTS
    RewardsAddUp
    BooksAddUp
    QuestsCanEnd
    BelongingsKept
