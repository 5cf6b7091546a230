SPECIFICATION FairSpec
CONSTANTS
  Apps = {a, b}
  Workers = {w1, w2}
  Files = {f}
  Queues = {q1, q2}
  MaxIO = 2
  None = None
  Faults = {"thread"}
  Careful = TRUE
INVARIANTS TypeOK CloseIsLast CloseNotForgotten OnePlace QueueOutlivesTasks NoLostWakeup PoolServes
PROPERTIES DestroyReturns QuitReturns
CHECK_DEADLOCK FALSE
