SPECIFICATION FairSpec
CONSTANTS
  Threads = {a, b}
  TimerThread = TimerThread
  Slots = {s1, s2}
  NoSlot = NoSlot
  MaxId = 2
  Faults = {"init", "malloc"}
  Orderly = TRUE
INVARIANTS TypeOK OnePlace QuitFreesAll
PROPERTIES CancelsItsOwn RemovedIsSkipped AddedTimerFires QuitReturns
CHECK_DEADLOCK FALSE
