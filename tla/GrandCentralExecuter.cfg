SPECIFICATION FairSpec
CONSTANTS
  t1 = t1
  t2 = t2
  t3 = t3
  Threads <- ThreeThreads
  MaxTasks = 2
INVARIANTS OneAtATime CountExact NoneForgotten
PROPERTY ImplementsSerialExecuter
CHECK_DEADLOCK FALSE
