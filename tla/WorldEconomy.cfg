\* None of the four hazards happens.
SPECIFICATION Spec
CONSTANTS
  Char = {a, b}
  Token = {t1, t2}
  Listing = {l1}
  None = None
  Cap = 2
  StartCopper = 1
  BuyPrice = 2
  SellPrice = 1
  Deposit = 1
  BuyoutPrice = 2
  Cut = 1
  RewardCopper = 1
  RewardItems = 1
  AdminGrant = 1
  MaxCopper = 2
  MaxPending = 1
  Races = {}
SYMMETRY Interchangeable
INVARIANTS BooksBalance ConnectedSeesTheStore
PROPERTY RewardIsForGood
CHECK_DEADLOCK FALSE
