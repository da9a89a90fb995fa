SPECIFICATION Spec
CONSTANTS
  Maps = {m1, m2}
  Names = {a, b}
  Tokens = {t1, t2}
  BagCapacity = 1
  ArchiveWorks = FALSE
  MaxLoots = 2
  MaxRestarts = 1
  MaxRecords = 2
INVARIANT ShutdownCompletes
SYMMETRY Renamings
CHECK_DEADLOCK FALSE
