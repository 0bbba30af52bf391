SPECIFICATION Spec
CONSTANTS
  t1 = t1
  t2 = t2
  t3 = t3
  manager = manager
  player1 = player1
  player2 = player2
  sendBuffer = sendBuffer
  pool = pool
  None = None
  Threads <- ThreeThreads
  Locks <- FiveLocks
  mLockOrder <- Orders
SYMMETRY Interchangeable
INVARIANT NoDeadlock
INVARIANT StackExact
PROPERTY LocksAreRWLocks
