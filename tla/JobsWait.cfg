\* The waiting loop after up to two jobs, in a table that is never full.
CONSTANTS
  JobSlots = 8
  MaxJobs = 2
SPECIFICATION Spec
PROPERTY WaitLoopEnds
CHECK_DEADLOCK FALSE
