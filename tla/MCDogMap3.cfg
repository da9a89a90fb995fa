SPECIFICATION Spec
CONSTANTS
  Roads <- map3
  dS = 4
  MaxSpeed = 3
  Deltas <- ShortDeltas
INVARIANT TypeOK
INVARIANT DogOnItsRoad
PROPERTY NeverLeavesRoads
PROPERTY StandingDogStays
PROPERTY MoveWithinVelocity
