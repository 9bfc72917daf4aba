SPECIFICATION FairSpec
CONSTANTS
  Fibers = 3
  Job = {a, b, e, g}
  Endless = {e, g}
  NoJob = NoJob
  MaxNap = 2
  MaxYields = 1
INVARIANTS
  EachJobOnce
PROPERTIES
  ImplementsJobs
  JobsRun
CHECK_DEADLOCK FALSE
