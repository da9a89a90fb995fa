SPECIFICATION FairSpec
CONSTANTS
  t1 = t1
  t2 = t2
  t3 = t3
  t4 = t4
  c1 = c1
  c2 = c2
  None = None
  Threads <- MCThreads
  Connections <- MCConnections
INVARIANT TypeOK
INVARIANT EachConnectionOnce
INVARIANT CountMatchesUsers
INVARIANT NoLostWakeup
PROPERTY FreeConnectionFindsWaiter
PROPERTY ImplementsLease
