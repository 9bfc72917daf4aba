SPECIFICATION FairSpec
CONSTANTS
  t1 = t1
  t2 = t2
  t3 = t3
  j1 = j1
  j2 = j2
  Thread <- MCThread
  Job <- MCJob
  MaxSpurious = 1
  Main = Main
  Free = Free
  NoJob = NoJob
INVARIANTS
  NoLostWakeup
  EachJobOnce
  AvailableCount
PROPERTIES
  ImplementsJobs
  JobsRun
  DestroyReturns
CHECK_DEADLOCK FALSE
