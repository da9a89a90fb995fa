SPECIFICATION Spec
CONSTANTS
  Maps = {m1, m2}
  Names = {a, b}
  Tokens = {t1, t2}
  BagCapacity = 1
  ArchiveWorks = TRUE
  MaxLoots = 2
  MaxRestarts = 1
  MaxRecords = 2
INVARIANT LootConserved
INVARIANT IdsFollowJoinOrder
INVARIANT RetiredHaveRecords
PROPERTY RestoredIsSaved
PROPERTY RetirementCompletesOrBreaksOff
SYMMETRY Renamings
CHECK_DEADLOCK FALSE
