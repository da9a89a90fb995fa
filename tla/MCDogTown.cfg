SPECIFICATION Spec
CONSTANTS
  Roads <- town
  dS = 4
  MaxSpeed = 3
  Deltas <- LongDelta
PROPERTY StopsOnlyAtDeadEnd
PROPERTY NeverLeavesRoads
