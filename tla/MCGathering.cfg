SPECIFICATION Spec
CONSTANTS
  Points <- Streets
  Steps <- Moves
  LootPlaces <- Places
  Offices <- Corner
INVARIANT WalkGathersLikeOneMove
