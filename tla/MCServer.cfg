SPECIFICATION FairSpec
CONSTANTS
  Main = main
  Threads = {main, worker}
  Conns = {c, d}
INVARIANT HandlersNeverOverlap
INVARIANT OneTickPending
PROPERTY ClockKeepsTicking
PROPERTY RequestsEnd
PROPERTY ShutdownEnds
CHECK_DEADLOCK FALSE
