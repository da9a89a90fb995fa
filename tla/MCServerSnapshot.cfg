SPECIFICATION Spec
CONSTANTS
  Main = main
  Threads = {main, worker}
  Conns = {c, d}
INVARIANT SnapshotIsAState
CHECK_DEADLOCK FALSE
