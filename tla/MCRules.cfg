SPECIFICATION SameCallerSpec
CONSTANTS
  code = code
  binding = binding
  advice = advice
  both = both
  dwelling = dwelling
  shop = shop
  Documents <- Code
  Candidates <- TwoRules
  Packs <- OnePack
  TakenFrom <- FromCode
  HeldBy <- OfBoth
  Official <- Code
  Regulatory <- Binding
  Complete <- OnePack
  MaxEdits = 1
  OccupancyGroups <- TwoGroups
  AppliesTo <- ForOneGroup
INVARIANTS CurrentStillHolds
CHECK_DEADLOCK FALSE
