SPECIFICATION FairSpec
CONSTANTS
  Names = {a, b}
  Offices = 1
  LootTypes <- MCLootTypes
  LootScore <- MCLootScore
  BagCapacity = 2
  Deltas <- MCDeltas
  MaxTime = 3
  MaxLoot = 3
  OriginOnRoad = FALSE
INVARIANT TypeOK
INVARIANT NoSharedIds
INVARIANT LootBoundedByLooters
INVARIANT PlayTimeFollowsJoinOrder
PROPERTY ImplementsLedger
PROPERTY ParkedDogHoldsUpLaterOnes
PROPERTY TickEnds
