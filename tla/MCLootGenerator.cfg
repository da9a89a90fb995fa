SPECIFICATION FairSpec
CONSTANTS
  Scale = 1000
  Horizon = 130
  Probability <- MCProbability
  BaseInterval = 50
  Deltas = {1, 7}
  MaxLooters = 3
INVARIANT TypeOK
INVARIANT LootWithinLooters
PROPERTY WaitShorterThanBase
PROPERTY FreePlacesGetLoot
