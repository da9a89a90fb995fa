SPECIFICATION Spec
CONSTANTS
  m1 = m1
  m2 = m2
  t1 = t1
  t2 = t2
  t3 = t3
  Maps = {m1, m2}
  UnknownMaps = {nowhere}
  Names = {a, b, empty}
  EmptyName = empty
  Tokens = {t1, t2, t3}
  NoToken = none
  TokenChars <- MCTokenChars
  ConfigSpeed <- MCConfigSpeed
  DefaultSpeed = 3
  NumLoots <- MCNumLoots
  NumRoads <- MCNumRoads
INVARIANT TokensResolve
INVARIANT LookupsSucceed
INVARIANT ClockStartsWithFirstPlayer
INVARIANT PlayersSteerTheirDogs
