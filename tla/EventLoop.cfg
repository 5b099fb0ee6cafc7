SPECIFICATION FairSpec
CONSTANTS
  p1 = p1
  p2 = p2
  t1 = t1
  t2 = t2
  t3 = t3
  Threads <- MCThreads
  Tasks <- MCTasks
INVARIANTS
  TypeOK
  NoLostWakeup
PROPERTIES
  ImplementsTaskQueue
  DrainedBeforeExit
  QueuedRuns
  QuitStops
